---- MODULE Spec2Model ----
(***************************************************************************)
(* A model of the clock subsystem (src/clock.go) and of the fetch-execute  *)
(* loop of the 6502 core (src/unnamed/part_000).                           *)
(*                                                                         *)
(* Clock.Await, Clock.Start, Clock.Stop and Clock.maintainTime share the   *)
(* fields of Clock without any lock, so every read and write of a shared   *)
(* field is a step of its own and the steps of different goroutines        *)
(* interleave freely.                                                      *)
(***************************************************************************)
EXTENDS Integers, Sequences, FiniteSets, TLC

\* ------------------------------------------------------------------ bounds

\* uint64 arithmetic is arithmetic modulo 2^64; the model keeps the wrap and
\* scales the modulus down to WordMod.
WordMod == 32

\* The tick producer stops counting at MaxTicks (the counter itself is
\* unbounded below 2^64).
MaxTicks == 4

\* Goroutines calling Clock.Await concurrently.
NumWaiters == 2

\* Await targets are drawn from 0..MaxTarget and HugeTarget.
MaxTarget == 2

\* Dividers have a divisor in 1..MaxDivisor.
MaxDivisor == 2

\* Channels alive at the same time.
MaxChans == 3

\* maintainTime goroutines alive at the same time.
MaxProducers == 2

\* ------------------------------------------------------------- the state

VARIABLES
    ticks,      \* Clock.ticks
    ticker,     \* Clock.ticker # nil
    tickerC,    \* number of ticks buffered in Clock.ticker.C (capacity 1)
    waiting,    \* Clock.waiting: a map from tick to the list of channels
    chanBuf,    \* the channels made by Await that hold a value (capacity 1)
    prod,       \* the maintainTime goroutines
    host,       \* the goroutine calling Start and Stop
    thr,        \* the goroutines calling Await
    fatal,      \* the Go runtime has aborted the process
    halted,     \* history: no Start was called since NewClock or since Stop last returned
    due,        \* history: the channels registered for ticks when ticks was
                \* reached that were not sent to since
    cpu,        \* the M6502: its registers and its place in Execute and Run
    mem,        \* the Memory of the M6502
    clk,        \* the Clocker of the M6502: the Clock or a Divider of it
    calls       \* history: the methods of the M6502 its owner called directly,
                \* each with the registers and the memory it found

cpuVars == <<cpu, mem, clk, calls>>

vars == <<ticks, ticker, tickerC, waiting, chanBuf, prod, host, thr, fatal,
          halted, due, cpu, mem, clk, calls>>

Waiters == 1..NumWaiters
Producers == 1..MaxProducers
Chans == 1..MaxChans
HugeTarget == WordMod \div 2
Targets == (0..MaxTarget) \cup {HugeTarget}
Divisors == 1..MaxDivisor

Range(s) == {s[i] : i \in DOMAIN s}

IdleThread == [pc |-> "idle", via |-> "clock", d |-> 1, T |-> 0, tick |-> 0,
               C |-> 0, tmp |-> <<>>, ret |-> 0]
IdleProducer == [pc |-> "none", Ca |-> <<>>]
IdleHost == [pc |-> "idle", ret |-> 0]

\* NewClock
NewClock ==
    /\ ticks = 0
    /\ ticker = FALSE
    /\ tickerC = 0
    /\ waiting = <<>>
    /\ chanBuf = {}
    /\ prod = [p \in Producers |-> IdleProducer]

InitHistory ==
    /\ fatal = FALSE
    /\ halted = TRUE
    /\ due = {}

\* ------------------------------------------------------------------ maps

\* clock.waiting[k], the zero value (a nil slice) when k is absent
MapGet(m, k) == IF k \in DOMAIN m THEN m[k] ELSE <<>>

\* clock.waiting[k] = v
MapSet(m, k, v) == [x \in DOMAIN m \cup {k} |-> IF x = k THEN v ELSE m[x]]

\* delete(clock.waiting, k)
MapDelete(m, k) == [x \in DOMAIN m \ {k} |-> m[x]]

\* The channels some goroutine or the map still refers to.
LiveChans ==
    UNION {Range(waiting[k]) : k \in DOMAIN waiting}
      \cup UNION {Range(prod[p].Ca) : p \in Producers}
      \cup UNION {Range(thr[w].tmp) \cup {thr[w].C} : w \in DOMAIN thr}

\* make(chan int, 1): a channel nothing refers to yet
FreeChans == Chans \ LiveChans
NewChan == CHOOSE c \in FreeChans : \A e \in FreeChans : c <= e

\* ----------------------------------------------------------- the ticker

\* The runtime timer of time.NewTicker: one tick per period into a channel of
\* capacity 1; a tick that finds the channel full is dropped.
TickerFire ==
    /\ ~fatal
    /\ ticker
    /\ tickerC = 0
    /\ tickerC' = 1
    /\ UNCHANGED <<cpuVars, ticks, ticker, waiting, chanBuf, prod, host, thr, fatal,
                   halted, due>>

\* --------------------------------------------------- Clock.maintainTime

\* clock.ticks++
TickIncrement(t) == (t + 1) % WordMod

\* case _ = <-clock.ticker.C: clock.ticks++
ProdTick(p) ==
    /\ ~fatal
    /\ prod[p].pc = "select"
    /\ ticker
    /\ tickerC = 1
    /\ ticks < MaxTicks
    /\ tickerC' = 0
    /\ ticks' = TickIncrement(ticks)
    /\ prod' = [prod EXCEPT ![p].pc = "lookup"]
    /\ due' = Range(MapGet(waiting, ticks'))
    /\ UNCHANGED <<cpuVars, ticker, waiting, chanBuf, host, thr, fatal, halted>>

\* if Ca, ok := clock.waiting[clock.ticks]; ok
ProdLookup(p) ==
    /\ ~fatal
    /\ prod[p].pc = "lookup"
    /\ IF ticks \in DOMAIN waiting
         THEN prod' = [prod EXCEPT ![p] = [pc |-> "send", Ca |-> waiting[ticks]]]
         ELSE prod' = [prod EXCEPT ![p].pc = "select"]
    /\ UNCHANGED <<cpuVars, ticks, ticker, tickerC, waiting, chanBuf, host, thr, fatal,
                   halted, due>>

\* for _, C := range Ca { C <- 1 }: one send, which blocks while C is full
ProdSend(p) ==
    /\ ~fatal
    /\ prod[p].pc = "send"
    /\ IF prod[p].Ca = <<>>
         THEN /\ prod' = [prod EXCEPT ![p].pc = "delete"]
              /\ UNCHANGED <<chanBuf, due>>
         ELSE /\ Head(prod[p].Ca) \notin chanBuf
              /\ chanBuf' = chanBuf \cup {Head(prod[p].Ca)}
              /\ due' = due \ {Head(prod[p].Ca)}
              /\ prod' = [prod EXCEPT ![p].Ca = Tail(prod[p].Ca)]
    /\ UNCHANGED <<cpuVars, ticks, ticker, tickerC, waiting, host, thr, fatal, halted>>

\* delete(clock.waiting, clock.ticks)
ProdDelete(p) ==
    /\ ~fatal
    /\ prod[p].pc = "delete"
    /\ waiting' = MapDelete(waiting, ticks)
    /\ prod' = [prod EXCEPT ![p].pc = "select"]
    /\ UNCHANGED <<cpuVars, ticks, ticker, tickerC, chanBuf, host, thr, fatal, halted, due>>

\* case <-clock.stopChan: clock.ticker = nil; return
ProdExit(p) ==
    /\ ~fatal
    /\ prod[p].pc = "stopping"
    /\ ticker' = FALSE
    /\ tickerC' = 0
    /\ prod' = [prod EXCEPT ![p] = IdleProducer]
    /\ UNCHANGED <<cpuVars, ticks, waiting, chanBuf, host, thr, fatal, halted, due>>

\* ---------------------------------------------------------- Clock.Start

\* ticks = clock.ticks: the first statement of Start
StartRead ==
    /\ ~fatal
    /\ host.pc = "idle"
    /\ host' = [pc |-> "start_check", ret |-> ticks]
    /\ halted' = FALSE
    /\ UNCHANGED <<cpuVars, ticks, ticker, tickerC, waiting, chanBuf, prod, thr, fatal, due>>

\* go clock.maintainTime(): the first free slot holds the new goroutine
Spawn ==
    /\ \E p \in Producers : prod[p].pc = "none"
    /\ LET p == CHOOSE q \in Producers :
                  /\ prod[q].pc = "none"
                  /\ \A r \in Producers : prod[r].pc = "none" => q <= r
       IN  prod' = [prod EXCEPT ![p].pc = "select"]

\* A Start without the test of clock.ticker.
StartSpawnAlways ==
    /\ ticker' = TRUE
    /\ tickerC' = 0
    /\ Spawn

\* if clock.ticker == nil { clock.ticker = time.NewTicker(clock.rate);
\*                          go clock.maintainTime() }
StartSpawn ==
    IF ~ticker
      THEN /\ ticker' = TRUE
           /\ tickerC' = 0
           /\ Spawn
      ELSE UNCHANGED <<ticker, tickerC, prod>>

\* the rest of Start, up to its return
StartCheck ==
    /\ ~fatal
    /\ host.pc = "start_check"
    /\ StartSpawn
    /\ host' = IdleHost
    /\ UNCHANGED <<cpuVars, ticks, waiting, chanBuf, thr, fatal, halted, due>>

\* ----------------------------------------------------------- Clock.Stop

\* if clock.ticker != nil: Stop returns at once when the ticker is nil
StopCheck ==
    /\ ~fatal
    /\ host.pc = "idle"
    /\ IF ticker
         THEN host' = [host EXCEPT !.pc = "stop_send"] /\ UNCHANGED halted
         ELSE host' = IdleHost /\ halted' = TRUE
    /\ UNCHANGED <<cpuVars, ticks, ticker, tickerC, waiting, chanBuf, prod, thr, fatal, due>>

\* A maintainTime that takes the stop message and goes on ticking.
StopRecvGoesOn(p) == prod' = prod

\* The receive of case <-clock.stopChan in maintainTime's select.
StopRecv(p) == prod' = [prod EXCEPT ![p].pc = "stopping"]

\* clock.stopChan <- 1 meets case <-clock.stopChan: the channel is unbuffered,
\* so the send completes only together with a receive in maintainTime's
\* select, and Stop returns.
StopSend(p) ==
    /\ ~fatal
    /\ host.pc = "stop_send"
    /\ prod[p].pc = "select"
    /\ StopRecv(p)
    /\ host' = IdleHost
    /\ halted' = TRUE
    /\ UNCHANGED <<cpuVars, ticks, ticker, tickerC, waiting, chanBuf, thr, fatal, due>>

\* ------------------------------------------- Clock.Await, Divider.Await

\* The tick a caller's target stands for on the master clock:
\* Divider.Await passes tick*clock.divisor, a uint64 product.
MasterTick(via, d, T) == IF via = "divider" THEN (T * d) % WordMod ELSE T

\* The tick count in the caller's domain: Clock.Ticks or Divider.Ticks.
DomainTicks(via, d, t) == IF via = "divider" THEN t \div d ELSE t

\* An Await that also waits for the tick the clock is at.
AwaitMustWaitInclusive(t, tick) == t <= tick

\* if clock.ticks < tick
AwaitMustWait(t, tick) == t < tick

\* Clock.Await(T), or Divider.Await(T) on a divider of divisor d, up to and
\* with   if clock.ticks < tick { C := make(chan int, 1)
AwaitEnter(w, via, d, T) ==
    /\ thr[w].pc = "idle"
    /\ LET tick == MasterTick(via, d, T)
           call == [IdleThread EXCEPT !.via = via, !.d = d, !.T = T, !.tick = tick]
       IN  IF AwaitMustWait(ticks, tick)
             THEN /\ FreeChans # {}
                  /\ thr' = [thr EXCEPT ![w] = [call EXCEPT !.pc = "read",
                                                            !.C = NewChan]]
             ELSE thr' = [thr EXCEPT ![w] = [call EXCEPT !.pc = "after"]]

AwaitCall(w, via, d, T) ==
    /\ ~fatal
    /\ AwaitEnter(w, via, d, T)
    /\ UNCHANGED <<cpuVars, ticks, ticker, tickerC, waiting, chanBuf, prod, host, fatal,
                   halted, due>>

\* the read of clock.waiting[tick] in append(clock.waiting[tick], C)
AwaitRead(w) ==
    /\ ~fatal
    /\ thr[w].pc = "read"
    /\ thr' = [thr EXCEPT ![w].pc = "write",
                          ![w].tmp = MapGet(waiting, thr[w].tick)]
    /\ UNCHANGED <<cpuVars, ticks, ticker, tickerC, waiting, chanBuf, prod, host, fatal,
                   halted, due>>

\* An Await that puts its channel into the list twice.
AwaitWriteTwice(w) ==
    /\ ~fatal
    /\ thr[w].pc = "write"
    /\ waiting' = MapSet(waiting, thr[w].tick,
                         Append(Append(thr[w].tmp, thr[w].C), thr[w].C))
    /\ thr' = [thr EXCEPT ![w].pc = "recv", ![w].tmp = <<>>]
    /\ UNCHANGED <<cpuVars, ticks, ticker, tickerC, chanBuf, prod, host, fatal, halted, due>>

\* clock.waiting[tick] = append(..., C)
AwaitWrite(w) ==
    /\ ~fatal
    /\ thr[w].pc = "write"
    /\ waiting' = MapSet(waiting, thr[w].tick, Append(thr[w].tmp, thr[w].C))
    /\ thr' = [thr EXCEPT ![w].pc = "recv", ![w].tmp = <<>>]
    /\ UNCHANGED <<cpuVars, ticks, ticker, tickerC, chanBuf, prod, host, fatal, halted, due>>

\* <-C
AwaitRecv(w) ==
    /\ ~fatal
    /\ thr[w].pc = "recv"
    /\ thr[w].C \in chanBuf
    /\ chanBuf' = chanBuf \ {thr[w].C}
    /\ thr' = [thr EXCEPT ![w].pc = "after"]
    /\ UNCHANGED <<cpuVars, ticks, ticker, tickerC, waiting, prod, host, fatal, halted, due>>

\* return clock.ticks (divided by the divisor in Divider.Await)
AwaitReturn(w) ==
    /\ ~fatal
    /\ thr[w].pc = "after"
    /\ thr' = [thr EXCEPT ![w].pc = "returned",
                          ![w].ret = DomainTicks(thr[w].via, thr[w].d, ticks)]
    /\ UNCHANGED <<cpuVars, ticks, ticker, tickerC, waiting, chanBuf, prod, host, fatal,
                   halted, due>>

\* The caller goes on after Await returned.
AwaitDone(w) ==
    /\ ~fatal
    /\ thr[w].pc = "returned"
    /\ thr' = [thr EXCEPT ![w] = IdleThread]
    /\ UNCHANGED <<cpuVars, ticks, ticker, tickerC, waiting, chanBuf, prod, host, fatal,
                   halted, due>>

\* ------------------------------------------------- concurrent map access

\* The goroutines whose next step reads, or writes, the map clock.waiting.
MapReaders == {<<"thr", w>> : w \in {x \in DOMAIN thr : thr[x].pc = "read"}}
                \cup {<<"prod", p>> : p \in {x \in Producers : prod[x].pc = "lookup"}}
MapWriters == {<<"thr", w>> : w \in {x \in DOMAIN thr : thr[x].pc = "write"}}
                \cup {<<"prod", p>> : p \in {x \in Producers : prod[x].pc = "delete"}}

\* Two goroutines are in the map at once, one of them writing: the runtime
\* may abort with "fatal error: concurrent map writes" (or "concurrent map
\* read and map write"); it may as well let both through, which is the
\* interleaving of the steps above.
MapFault ==
    /\ ~fatal
    /\ \E a \in MapWriters : \E b \in MapReaders \cup MapWriters : a # b
    /\ fatal' = TRUE
    /\ UNCHANGED <<cpuVars, ticks, ticker, tickerC, waiting, chanBuf, prod, host, thr,
                   halted, due>>

\* ------------------------------------------------------------ the M6502

Byte == 256
Word16 == 65536

\* Flags used by P (Status) register
FlagC == 1
FlagZ == 2
FlagI == 4
FlagD == 8
FlagB == 16
FlagV == 64
FlagN == 128

RECURSIVE BitAnd(_, _)
BitAnd(a, b) ==
    IF a = 0 \/ b = 0 THEN 0
    ELSE (a % 2) * (b % 2) + 2 * BitAnd(a \div 2, b \div 2)

RECURSIVE BitXor(_, _)
BitXor(a, b) ==
    IF a = 0 THEN b
    ELSE IF b = 0 THEN a
    ELSE ((a + b) % 2) + 2 * BitXor(a \div 2, b \div 2)

BitOr(a, b) == a + b - BitAnd(a, b)

\* p &^ flag
BitClear(p, flag) == p - BitAnd(p, flag)

\* Memory.Fetch: a byte for every address; a cell never stored to holds 0
Fetch(m, a) == IF a \in DOMAIN m THEN m[a] ELSE 0

\* Memory.Store
Store(m, a, v) == [x \in DOMAIN m \cup {a} |-> IF x = a THEN v ELSE m[x]]

\* SamePage: the two addresses have the same high byte
SamePage(a1, a2) == a1 \div Byte = a2 \div Byte

\* NewRegisters: all registers are initialized to 0
NewRegisters == [A |-> 0, X |-> 0, Y |-> 0, P |-> 0, SP |-> 0, PC |-> 0]

setZFlag(P, value) == IF value = 0 THEN BitOr(P, FlagZ) ELSE BitClear(P, FlagZ)

setNFlag(P, value) == BitOr(BitClear(P, FlagN), BitAnd(value, FlagN))

setZNFlags(P, value) == setNFlag(setZFlag(P, value), value)

\* An addressing mode yields the address, the registers with PC moved past
\* the operand, and the cycles it adds.
Operand(a, r, n, x) ==
    [a |-> a, r |-> [r EXCEPT !.PC = (r.PC + n) % Word16], x |-> x]

immediateAddress(r, m) == Operand(r.PC, r, 1, 0)

zeroPageAddress(r, m) == Operand(Fetch(m, r.PC), r, 1, 0)

IndexToRegister(r, index) ==
    IF index = "X" THEN r.X ELSE IF index = "Y" THEN r.Y ELSE 0

\* uint16(Fetch(PC) + index): the sum is a uint8
zeroPageIndexedAddress(r, m, index) ==
    Operand((Fetch(m, r.PC) + IndexToRegister(r, index)) % Byte, r, 1, 0)

\* (uint16(high) << 8) | uint16(low)
MakeWord(high, low) == high * Byte + low

absoluteAddress(r, m) ==
    Operand(MakeWord(Fetch(m, (r.PC + 1) % Word16), Fetch(m, r.PC)), r, 2, 0)

\* An absoluteIndexedAddress that never adds a cycle.
absoluteIndexedAddressFlat(r, m, index, cycles) ==
    LET address == MakeWord(Fetch(m, (r.PC + 1) % Word16), Fetch(m, r.PC))
    IN  Operand((address + IndexToRegister(r, index)) % Word16, r, 2, 0)

\* cycles is the pointer the executor passes: nil, or the address of its count
absoluteIndexedAddress(r, m, index, cycles) ==
    LET address == MakeWord(Fetch(m, (r.PC + 1) % Word16), Fetch(m, r.PC))
        result == (address + IndexToRegister(r, index)) % Word16
    IN  Operand(result, r, 2,
                IF cycles /\ ~SamePage(address, result) THEN 1 ELSE 0)

indexedIndirectAddress(r, m) ==
    LET address == (Fetch(m, r.PC) + r.X) % Byte
    IN  Operand(MakeWord(Fetch(m, address + 1), Fetch(m, address)), r, 1, 0)

indirectIndexedAddress(r, m, cycles) ==
    LET pointer == Fetch(m, r.PC)
        address == MakeWord(Fetch(m, pointer + 1), Fetch(m, pointer))
        result == (address + r.Y) % Word16
    IN  Operand(result, r, 1,
                IF cycles /\ ~SamePage(address, result) THEN 1 ELSE 0)

\* load: *register = setZNFlags(Fetch(address))
load(r, m, address, register) ==
    LET value == Fetch(m, address)
    IN  [r |-> [r EXCEPT ![register] = value, !.P = setZNFlags(r.P, value)],
         m |-> m]

\* store: Memory.Store(address, value)
store(r, m, address, value) == [r |-> r, m |-> Store(m, address, value)]

\* transfer: *to = setZNFlags(from)
transfer(r, m, from, to) ==
    [r |-> [r EXCEPT ![to] = r[from], !.P = setZNFlags(r.P, r[from])], m |-> m]

\* A stack in page zero.
StackAddressZeroPage(sp) == sp

\* 0x0100 | uint16(SP)
StackAddress(sp) == Byte + sp

push(r, m, value) ==
    [r |-> [r EXCEPT !.SP = (r.SP + Byte - 1) % Byte],
     m |-> Store(m, StackAddress(r.SP), value)]

\* push16: the high byte, then the low byte
push16(r, m, value) ==
    LET high == push(r, m, value \div Byte)
    IN  push(high.r, high.m, value % Byte)

Pha(r, m) == push(r, m, r.A)

\* A Php that pushes P as it is.
PhpAsIs(r, m) == push(r, m, r.P)

\* Php: push(uint8(P | B))
Php(r, m) == push(r, m, BitOr(r.P, FlagB))

\* A pull that reads the byte before it moves SP.
pullBefore(r, m) ==
    [r |-> [r EXCEPT !.SP = (r.SP + 1) % Byte],
     value |-> Fetch(m, StackAddress(r.SP))]

\* pull: SP++, then the byte at the stack address
pull(r, m) ==
    LET sp == (r.SP + 1) % Byte
    IN  [r |-> [r EXCEPT !.SP = sp], value |-> Fetch(m, StackAddress(sp))]

\* pull16: the low byte, then the high byte
pull16(r, m) ==
    LET low == pull(r, m)
        high == pull(low.r, m)
    IN  [r |-> high.r, value |-> MakeWord(high.value, low.value)]

Pla(r, m) ==
    LET got == pull(r, m)
    IN  [r |-> [got.r EXCEPT !.A = got.value, !.P = setZNFlags(got.r.P, got.value)],
         m |-> m]

Plp(r, m) ==
    LET got == pull(r, m)
    IN  [r |-> [got.r EXCEPT !.P = got.value], m |-> m]

And(r, m, address) ==
    LET value == BitAnd(r.A, Fetch(m, address))
    IN  [r |-> [r EXCEPT !.A = value, !.P = setZNFlags(r.P, value)], m |-> m]

Eor(r, m, address) ==
    LET value == BitXor(r.A, Fetch(m, address))
    IN  [r |-> [r EXCEPT !.A = value, !.P = setZNFlags(r.P, value)], m |-> m]

\* The method of the M6502 an executor of the instruction table calls, by
\* its name, applied at an address.
Operate(mn, r, m, address) ==
    CASE mn = "Lda" -> load(r, m, address, "A")
      [] mn = "Ldx" -> load(r, m, address, "X")
      [] mn = "Ldy" -> load(r, m, address, "Y")
      [] mn = "Sta" -> store(r, m, address, r.A)
      [] mn = "Stx" -> store(r, m, address, r.X)
      [] mn = "Sty" -> store(r, m, address, r.Y)
      [] mn = "Tax" -> transfer(r, m, "A", "X")
      [] mn = "Tay" -> transfer(r, m, "A", "Y")
      [] mn = "Txa" -> transfer(r, m, "X", "A")
      [] mn = "Tya" -> transfer(r, m, "Y", "A")
      [] mn = "Tsx" -> transfer(r, m, "SP", "X")
      [] mn = "Txs" -> transfer(r, m, "X", "SP")
      [] mn = "Pha" -> Pha(r, m)
      [] mn = "Php" -> Php(r, m)
      [] mn = "Pla" -> Pla(r, m)
      [] mn = "Plp" -> Plp(r, m)
      [] mn = "And" -> And(r, m, address)
      [] mn = "Eor" -> Eor(r, m, address)

\* increment: *register = setZNFlags(*register + 1), a uint8 sum
increment(r, m, register) ==
    LET value == (r[register] + 1) % Byte
    IN  [r |-> [r EXCEPT ![register] = value, !.P = setZNFlags(r.P, value)],
         m |-> m]

\* decrement: *register = setZNFlags(*register - 1), a uint8 difference
decrement(r, m, register) ==
    LET value == (r[register] + Byte - 1) % Byte
    IN  [r |-> [r EXCEPT ![register] = value, !.P = setZNFlags(r.P, value)],
         m |-> m]

\* shift: C takes the bit shifted out and a 0 comes in; store, the function
\* the caller passes, puts the result into A (to = "A") or into the memory
\* at address.
shift(r, m, direction, value, to, address) ==
    LET c == IF direction = "left" THEN value \div 128 ELSE value % 2
        shifted == IF direction = "left" THEN (value * 2) % Byte ELSE value \div 2
        P == setZNFlags(BitOr(BitClear(r.P, FlagC), c), shifted)
    IN  IF to = "A"
          THEN [r |-> [r EXCEPT !.A = shifted, !.P = P], m |-> m]
          ELSE [r |-> [r EXCEPT !.P = P], m |-> Store(m, address, shifted)]

\* rotate: C takes the bit shifted out and the old C comes in
rotate(r, m, direction, value, to, address) ==
    LET c == IF direction = "left" THEN value \div 128 ELSE value % 2
        rotated == IF direction = "left"
                     THEN ((value * 2) % Byte) + BitAnd(r.P, FlagC)
                     ELSE (value \div 2) + 128 * BitAnd(r.P, FlagC)
        P == setZNFlags(BitOr(BitClear(r.P, FlagC), c), rotated)
    IN  IF to = "A"
          THEN [r |-> [r EXCEPT !.A = rotated, !.P = P], m |-> m]
          ELSE [r |-> [r EXCEPT !.P = P], m |-> Store(m, address, rotated)]

\* The methods of the M6502 that no instruction of the table calls, by name:
\* Ora, Inc, Inx, Iny, Dec, Dex, Dey, the shifts and rotates, and the
\* methods that clear or set one flag.
Operation(mn, r, m, address) ==
    LET or == BitOr(r.A, Fetch(m, address))
        inc == (Fetch(m, address) + 1) % Byte
        dec == (Fetch(m, address) + Byte - 1) % Byte
    IN  CASE mn = "Ora" ->
                [r |-> [r EXCEPT !.A = or, !.P = setZNFlags(r.P, or)], m |-> m]
          [] mn = "Inc" ->
                [r |-> [r EXCEPT !.P = setZNFlags(r.P, inc)],
                 m |-> Store(m, address, inc)]
          [] mn = "Inx" -> increment(r, m, "X")
          [] mn = "Iny" -> increment(r, m, "Y")
          [] mn = "Dec" ->
                [r |-> [r EXCEPT !.P = setZNFlags(r.P, dec)],
                 m |-> Store(m, address, dec)]
          [] mn = "Dex" -> decrement(r, m, "X")
          [] mn = "Dey" -> decrement(r, m, "Y")
          [] mn = "AslA" -> shift(r, m, "left", r.A, "A", 0)
          [] mn = "Asl" -> shift(r, m, "left", Fetch(m, address), "memory", address)
          [] mn = "LsrA" -> shift(r, m, "right", r.A, "A", 0)
          [] mn = "Lsr" -> shift(r, m, "right", Fetch(m, address), "memory", address)
          [] mn = "RolA" -> rotate(r, m, "left", r.A, "A", 0)
          [] mn = "Rol" -> rotate(r, m, "left", Fetch(m, address), "memory", address)
          [] mn = "RorA" -> rotate(r, m, "right", r.A, "A", 0)
          [] mn = "Ror" -> rotate(r, m, "right", Fetch(m, address), "memory", address)
          [] mn = "Clc" -> [r |-> [r EXCEPT !.P = BitClear(r.P, FlagC)], m |-> m]
          [] mn = "Cld" -> [r |-> [r EXCEPT !.P = BitClear(r.P, FlagD)], m |-> m]
          [] mn = "Cli" -> [r |-> [r EXCEPT !.P = BitClear(r.P, FlagI)], m |-> m]
          [] mn = "Clv" -> [r |-> [r EXCEPT !.P = BitClear(r.P, FlagV)], m |-> m]
          [] mn = "Sec" -> [r |-> [r EXCEPT !.P = BitOr(r.P, FlagC)], m |-> m]
          [] mn = "Sed" -> [r |-> [r EXCEPT !.P = BitOr(r.P, FlagD)], m |-> m]
          [] mn = "Sei" -> [r |-> [r EXCEPT !.P = BitOr(r.P, FlagI)], m |-> m]

\* The operand of an addressing mode.
Address(mode, index, cycles, r, m) ==
    CASE mode = "immediateAddress" -> immediateAddress(r, m)
      [] mode = "zeroPageAddress" -> zeroPageAddress(r, m)
      [] mode = "zeroPageIndexedAddress" -> zeroPageIndexedAddress(r, m, index)
      [] mode = "absoluteAddress" -> absoluteAddress(r, m)
      [] mode = "absoluteIndexedAddress" ->
            absoluteIndexedAddress(r, m, index, cycles)
      [] mode = "indexedIndirectAddress" -> indexedIndirectAddress(r, m)
      [] mode = "indirectIndexedAddress" -> indirectIndexedAddress(r, m, cycles)
      [] mode = "implied" -> Operand(0, r, 0, 0)

\* An Instruction: the executor calls mn on the address of mode; index is the
\* register it passes to the mode, cycles whether it passes &cycles.
Ins(mn, mode, index, cycles, base) ==
    [mn |-> mn, mode |-> mode, index |-> index, cycles |-> cycles, base |-> base]

\* InitInstructions: the instructions by opcode
InstructionTable ==
       (169 :> Ins("Lda", "immediateAddress", "none", FALSE, 2))
    @@ (165 :> Ins("Lda", "zeroPageAddress", "none", FALSE, 3))
    @@ (181 :> Ins("Lda", "zeroPageIndexedAddress", "X", FALSE, 4))
    @@ (173 :> Ins("Lda", "absoluteAddress", "none", FALSE, 4))
    @@ (189 :> Ins("Lda", "absoluteIndexedAddress", "X", TRUE, 4))
    @@ (185 :> Ins("Lda", "absoluteIndexedAddress", "Y", TRUE, 4))
    @@ (161 :> Ins("Lda", "indexedIndirectAddress", "none", FALSE, 6))
    @@ (177 :> Ins("Lda", "indirectIndexedAddress", "none", TRUE, 5))
    @@ (162 :> Ins("Ldx", "immediateAddress", "none", FALSE, 2))
    @@ (166 :> Ins("Ldx", "zeroPageAddress", "none", FALSE, 3))
    @@ (182 :> Ins("Ldx", "zeroPageIndexedAddress", "Y", FALSE, 4))
    @@ (174 :> Ins("Ldx", "absoluteAddress", "none", FALSE, 4))
    @@ (190 :> Ins("Ldx", "absoluteIndexedAddress", "Y", TRUE, 4))
    @@ (160 :> Ins("Ldy", "immediateAddress", "none", FALSE, 2))
    @@ (164 :> Ins("Ldy", "zeroPageAddress", "none", FALSE, 3))
    @@ (180 :> Ins("Ldy", "zeroPageIndexedAddress", "X", FALSE, 4))
    @@ (172 :> Ins("Ldy", "absoluteAddress", "none", FALSE, 4))
    @@ (188 :> Ins("Ldy", "absoluteIndexedAddress", "X", TRUE, 4))
    @@ (133 :> Ins("Sta", "zeroPageAddress", "none", FALSE, 3))
    @@ (149 :> Ins("Sta", "zeroPageIndexedAddress", "X", FALSE, 4))
    @@ (141 :> Ins("Sta", "absoluteAddress", "none", FALSE, 4))
    @@ (157 :> Ins("Sta", "absoluteIndexedAddress", "X", FALSE, 5))
    @@ (153 :> Ins("Sta", "absoluteIndexedAddress", "Y", FALSE, 5))
    @@ (129 :> Ins("Sta", "indexedIndirectAddress", "none", FALSE, 6))
    @@ (145 :> Ins("Sta", "indirectIndexedAddress", "none", FALSE, 6))
    @@ (134 :> Ins("Stx", "zeroPageAddress", "none", FALSE, 3))
    @@ (150 :> Ins("Stx", "zeroPageIndexedAddress", "Y", FALSE, 4))
    @@ (142 :> Ins("Stx", "absoluteAddress", "none", FALSE, 4))
    @@ (132 :> Ins("Sty", "zeroPageAddress", "none", FALSE, 3))
    @@ (148 :> Ins("Sty", "zeroPageIndexedAddress", "X", FALSE, 4))
    @@ (140 :> Ins("Sty", "absoluteAddress", "none", FALSE, 4))
    @@ (170 :> Ins("Tax", "implied", "none", FALSE, 2))
    @@ (168 :> Ins("Tay", "implied", "none", FALSE, 2))
    @@ (138 :> Ins("Txa", "implied", "none", FALSE, 2))
    @@ (152 :> Ins("Tya", "implied", "none", FALSE, 2))
    @@ (186 :> Ins("Tsx", "implied", "none", FALSE, 2))
    @@ (154 :> Ins("Txs", "implied", "none", FALSE, 2))
    @@ (72 :> Ins("Pha", "implied", "none", FALSE, 3))
    @@ (8 :> Ins("Php", "implied", "none", FALSE, 3))
    @@ (104 :> Ins("Pla", "implied", "none", FALSE, 4))
    @@ (40 :> Ins("Plp", "implied", "none", FALSE, 4))
    @@ (41 :> Ins("And", "immediateAddress", "none", FALSE, 2))
    @@ (37 :> Ins("And", "zeroPageAddress", "none", FALSE, 3))
    @@ (53 :> Ins("And", "zeroPageIndexedAddress", "X", FALSE, 4))
    @@ (45 :> Ins("And", "absoluteAddress", "none", FALSE, 4))
    @@ (61 :> Ins("And", "absoluteIndexedAddress", "X", TRUE, 4))
    @@ (57 :> Ins("And", "absoluteIndexedAddress", "Y", TRUE, 4))
    @@ (33 :> Ins("And", "indexedIndirectAddress", "none", FALSE, 6))
    @@ (49 :> Ins("And", "indirectIndexedAddress", "none", TRUE, 5))
    @@ (73 :> Ins("Eor", "immediateAddress", "none", FALSE, 2))
    @@ (69 :> Ins("Eor", "zeroPageAddress", "none", FALSE, 3))
    @@ (85 :> Ins("Eor", "zeroPageIndexedAddress", "X", FALSE, 4))
    @@ (77 :> Ins("Eor", "absoluteAddress", "none", FALSE, 4))
    @@ (93 :> Ins("Eor", "absoluteIndexedAddress", "X", TRUE, 4))
    @@ (89 :> Ins("Eor", "absoluteIndexedAddress", "Y", TRUE, 4))
    @@ (65 :> Ins("Eor", "indexedIndirectAddress", "none", FALSE, 6))
    @@ (81 :> Ins("Eor", "indirectIndexedAddress", "none", TRUE, 5))

\* inst.Exec(cpu) of M6502.Execute: the executor of the table run on the
\* M6502, so that the methods it calls are the M6502's (its Php pushes P
\* with B set). The registers, the memory and the cycle count after it.
\* The older Cpu of src/unnamed/part_001, for which src/instructions.go
\* declares its executors, is not part of this model.
Exec(opcode, r, m) ==
    LET inst == InstructionTable[opcode]
        operand == Address(inst.mode, inst.index, inst.cycles, r, m)
        after == Operate(inst.mn, operand.r, m, operand.a)
    IN  [r |-> after.r, m |-> after.m, cycles |-> inst.base + operand.x]

\* ------------------------------- the M6502: reset, arithmetic, jumps, branches

\* Registers.Reset: P = I, SP = 0xfd, PC = 0xfffc, the other registers 0
RegistersReset(r) ==
    [A |-> 0, X |-> 0, Y |-> 0, P |-> FlagI, SP |-> 253, PC |-> 65532]

\* The states Memory.Reset may leave the memory in: its defined initial state
\* is the memory's own affair, so it is any of these.
ResetImages ==
    {<<>>,
     (65532 :> 0) @@ (65533 :> 128),
     (65532 :> 252) @@ (65533 :> 255)}

\* value>>8&uint16(C) replaces the C bit of P
setCFlagAddition(P, value) ==
    BitOr(BitClear(P, FlagC), BitAnd(value \div Byte, FlagC))

\* (^(term1^term2)&(term1^result)&uint16(N))>>1 replaces the V bit of P
setVFlagAddition(P, term1, term2, result) ==
    BitOr(BitClear(P, FlagV),
          BitAnd(BitAnd(Word16 - 1 - BitXor(term1, term2), BitXor(term1, result)),
                 FlagN) \div 2)

\* addition, binary: orig + value + carry
additionBinary(r, value) ==
    LET orig == r.A
        result == (orig + value + BitAnd(r.P, FlagC)) % Word16
        P1 == setCFlagAddition(r.P, result)
        P2 == setVFlagAddition(P1, orig, value, result)
    IN  [r EXCEPT !.A = result % Byte, !.P = setZNFlags(P2, result % Byte)]

\* addition, decimal: the nibbles are added apart, 10 is taken from a low
\* nibble of 10 or more and carried, 0xa0 is taken from a high part of 0xa0
\* or more; the C bit is bit 8 of what is left
additionDecimal(r, value) ==
    LET orig == r.A
        low0 == BitAnd(orig, 15) + BitAnd(value, 15) + BitAnd(r.P, FlagC)
        high0 == BitAnd(orig, 240) + BitAnd(value, 240)
        low == IF low0 >= 10 THEN low0 - 10 ELSE low0
        high1 == IF low0 >= 10 THEN high0 + 16 ELSE high0
        high == IF high1 >= 160 THEN high1 - 160 ELSE high1
        result == BitOr(high, BitAnd(low, 15))
        P1 == setCFlagAddition(r.P, result)
        P2 == setVFlagAddition(P1, orig, value, result)
    IN  [r EXCEPT !.A = result % Byte, !.P = setZNFlags(P2, result % Byte)]

\* addition: if cpu.Registers.P&D == 0 { binary } else { decimal }
addition(r, value) ==
    IF BitAnd(r.P, FlagD) = 0 THEN additionBinary(r, value)
                              ELSE additionDecimal(r, value)

Adc(r, m, address) == [r |-> addition(r, Fetch(m, address)), m |-> m]

\* An Sbc that adds the operand as it is.
SbcOperandAsIs(P, value) == value

\* Sbc's operand of addition: value ^= 0xff in binary mode, 0x99 - value (a
\* uint16) in decimal mode
SbcOperand(P, value) ==
    IF BitAnd(P, FlagD) = 0 THEN BitXor(value, 255)
                            ELSE (153 + Word16 - value) % Word16

Sbc(r, m, address) ==
    [r |-> addition(r, SbcOperand(r.P, Fetch(m, address))), m |-> m]

\* compare: value := uint16(Fetch(address)) ^ 0xff + 1, which Go reads as
\* (uint16(Fetch(address)) ^ 0xff) + 1;
\* setZNFlags(uint8(setCFlagAddition(uint16(register) + value)))
compare(r, m, address, register) ==
    LET value == BitXor(Fetch(m, address), 255) + 1
        result == (register + value) % Word16
    IN  [r |-> [r EXCEPT !.P = setZNFlags(setCFlagAddition(r.P, result),
                                           result % Byte)],
         m |-> m]

Cmp(r, m, address) == compare(r, m, address, r.A)

Cpx(r, m, address) == compare(r, m, address, r.X)

Cpy(r, m, address) == compare(r, m, address, r.Y)

\* Bit: setZFlag(value & A); P = P | (value & 0xc0)
Bit(r, m, address) ==
    LET value == Fetch(m, address)
    IN  [r |-> [r EXCEPT !.P = BitOr(setZFlag(r.P, BitAnd(value, r.A)),
                                     BitAnd(value, 192))],
         m |-> m]

relativeAddress(r, m) ==
    LET value == Fetch(m, r.PC)
        next == (r.PC + 1) % Word16
    IN  Operand(IF value > 127 THEN (next + Word16 - (256 - value)) % Word16
                               ELSE (next + value) % Word16,
                r, 1, 0)

\* An indirectAddress that reads the high byte at pointer + 1.
indirectAddressCarries(r, m) ==
    LET pointer == MakeWord(Fetch(m, (r.PC + 1) % Word16), Fetch(m, r.PC))
    IN  Operand(MakeWord(Fetch(m, (pointer + 1) % Word16), Fetch(m, pointer)),
                r, 2, 0)

\* indirectAddress: low+1 is a uint8 sum, so the high byte of the target is
\* read in the page of the pointer
indirectAddress(r, m) ==
    LET low == Fetch(m, r.PC)
        high == Fetch(m, (r.PC + 1) % Word16)
        aHigh == MakeWord(high, (low + 1) % Byte)
        aLow == MakeWord(high, low)
    IN  Operand(MakeWord(Fetch(m, aHigh), Fetch(m, aLow)), r, 2, 0)

Jmp(r, m, address) == [r |-> [r EXCEPT !.PC = address], m |-> m]

\* A branch that charges one cycle when taken, whatever the page.
branchFlat(r, m, address, condition) ==
    IF condition THEN [r |-> [r EXCEPT !.PC = address], m |-> m, x |-> 1]
                 ELSE [r |-> r, m |-> m, x |-> 0]

\* branch: x is what it adds to *cycles
branch(r, m, address, condition) ==
    IF condition
      THEN [r |-> [r EXCEPT !.PC = address], m |-> m,
            x |-> IF SamePage(r.PC, address) THEN 1 ELSE 2]
      ELSE [r |-> r, m |-> m, x |-> 0]

\* A Jsr that pushes the return point itself.
JsrReturnPoint(r, m, address) ==
    LET pushed == push16(r, m, r.PC)
    IN  [r |-> [pushed.r EXCEPT !.PC = address], m |-> pushed.m]

\* Jsr: the return point minus one is pushed
Jsr(r, m, address) ==
    LET pushed == push16(r, m, (r.PC + Word16 - 1) % Word16)
    IN  [r |-> [pushed.r EXCEPT !.PC = address], m |-> pushed.m]

\* Rts: PC = pull16() + 1
Rts(r, m) ==
    LET got == pull16(r, m)
    IN  [r |-> [got.r EXCEPT !.PC = (got.value + 1) % Word16], m |-> m]

\* Brk: PC++, push16(PC), push(P | B), P |= I, PC = the word at 0xfffe
Brk(r, m) ==
    LET pc == (r.PC + 1) % Word16
        word == push16(r, m, pc)
        status == push(word.r, word.m, BitOr(r.P, FlagB))
    IN  [r |-> [status.r EXCEPT !.P = BitOr(r.P, FlagI),
                                !.PC = MakeWord(Fetch(status.m, 65535),
                                                Fetch(status.m, 65534))],
         m |-> status.m]

\* An Rti that adds one to the PC it pulls, as Rts does.
RtiPlusOne(r, m) ==
    LET status == pull(r, m)
        word == pull16(status.r, m)
    IN  [r |-> [word.r EXCEPT !.P = status.value,
                              !.PC = (word.value + 1) % Word16],
         m |-> m]

\* Rti: P = pull(), PC = pull16()
Rti(r, m) ==
    LET status == pull(r, m)
        word == pull16(status.r, m)
    IN  [r |-> [word.r EXCEPT !.P = status.value, !.PC = word.value], m |-> m]

Bcc(r, m, address) == branch(r, m, address, BitAnd(r.P, FlagC) = 0)

Bcs(r, m, address) == branch(r, m, address, BitAnd(r.P, FlagC) # 0)

Beq(r, m, address) == branch(r, m, address, BitAnd(r.P, FlagZ) # 0)

Bmi(r, m, address) == branch(r, m, address, BitAnd(r.P, FlagN) # 0)

Bne(r, m, address) == branch(r, m, address, BitAnd(r.P, FlagZ) = 0)

Bpl(r, m, address) == branch(r, m, address, BitAnd(r.P, FlagN) = 0)

Bvc(r, m, address) == branch(r, m, address, BitAnd(r.P, FlagV) = 0)

Bvs(r, m, address) == branch(r, m, address, BitAnd(r.P, FlagV) # 0)

\* An error that carries the byte after the opcode's.
BadOpCodeErrorOffByOne(opcode) == <<(opcode + 1) % Byte>>

\* BadOpCodeError(opcode); nil is <<>>
BadOpCodeError(opcode) == <<opcode>>

\* An Execute that does cpu.Registers.PC++ before it looks the opcode up.
BadOpcodePCAdvanced(pc) == (pc + 1) % Word16

\* The PC Execute returns with when the opcode has no instruction: the
\* return comes before cpu.Registers.PC++
BadOpcodePC(pc) == pc

\* An Execute that awaits the tick it started at.
AwaitTargetStart(start, cycles) == start

\* ticks + uint64(cycles)
AwaitTarget(start, cycles) == (start + cycles) % WordMod

CpuThread == "cpu"

IdleCpu == [pc |-> "idle", mode |-> "none", start |-> 0, opcode |-> 0,
            cycles |-> 0, error |-> <<>>, r |-> NewRegisters]

\* No M6502 is at work.
NoCpu ==
    /\ cpu = IdleCpu
    /\ mem = <<>>
    /\ clk = [via |-> "clock", d |-> 1]
    /\ calls = <<>>

\* Execute or Run is called; Execute begins: ticks := cpu.clock.Ticks()
ExecuteSample(mode) ==
    cpu' = [cpu EXCEPT !.pc = "fetch", !.mode = mode,
                       !.start = DomainTicks(clk.via, clk.d, ticks),
                       !.opcode = 0, !.cycles = 0, !.error = <<>>]

ExecuteCall(mode) ==
    /\ ~fatal
    /\ cpu.pc = "idle"
    /\ ExecuteSample(mode)
    /\ UNCHANGED <<ticks, ticker, tickerC, waiting, chanBuf, prod, host, thr,
                   fatal, halted, due, mem, clk, calls>>

\* Run: for { if _, error := cpu.Execute(); error != nil { return error } }
RunStops(error) == error # <<>>

\* Run calls Execute again.
RunLoop ==
    /\ ~fatal
    /\ cpu.pc = "returned"
    /\ cpu.mode = "run"
    /\ ~RunStops(cpu.error)
    /\ ExecuteSample("run")
    /\ UNCHANGED <<ticks, ticker, tickerC, waiting, chanBuf, prod, host, thr,
                   fatal, halted, due, mem, clk, calls>>

\* Execute from the fetch to the call of Await: opcode := Fetch(PC);
\* inst, ok := cpu.Instructions[opcode]; if !ok { return 0, BadOpCodeError };
\* cpu.Registers.PC++; cycles = inst.Exec(cpu)
ExecuteFetch ==
    /\ ~fatal
    /\ cpu.pc = "fetch"
    /\ LET opcode == Fetch(mem, cpu.r.PC)
       IN  IF opcode \notin DOMAIN InstructionTable
             THEN /\ cpu' = [cpu EXCEPT !.pc = "returned", !.opcode = opcode,
                                        !.cycles = 0,
                                        !.error = BadOpCodeError(opcode),
                                        !.r.PC = BadOpcodePC(cpu.r.PC)]
                  /\ UNCHANGED mem
             ELSE LET done == Exec(opcode,
                                   [cpu.r EXCEPT !.PC = (cpu.r.PC + 1) % Word16],
                                   mem)
                  IN  /\ cpu' = [cpu EXCEPT !.pc = "await", !.opcode = opcode,
                                            !.cycles = done.cycles, !.r = done.r]
                      /\ mem' = done.m
    /\ UNCHANGED <<ticks, ticker, tickerC, waiting, chanBuf, prod, host, thr,
                   fatal, halted, due, clk, calls>>

\* cpu.clock.Await(ticks + uint64(cycles)), up to the test of Clock.Await
ExecuteAwait ==
    /\ ~fatal
    /\ cpu.pc = "await"
    /\ AwaitEnter(CpuThread, clk.via, clk.d, AwaitTarget(cpu.start, cpu.cycles))
    /\ cpu' = [cpu EXCEPT !.pc = "in_await"]
    /\ UNCHANGED <<ticks, ticker, tickerC, waiting, chanBuf, prod, host,
                   fatal, halted, due, mem, clk, calls>>

\* Await has returned: return cycles, nil
ExecuteReturn ==
    /\ ~fatal
    /\ cpu.pc = "in_await"
    /\ thr[CpuThread].pc = "returned"
    /\ thr' = [thr EXCEPT ![CpuThread] = IdleThread]
    /\ cpu' = [cpu EXCEPT !.pc = "returned"]
    /\ UNCHANGED <<ticks, ticker, tickerC, waiting, chanBuf, prod, host,
                   fatal, halted, due, mem, clk, calls>>

\* Run: return error
RunReturn ==
    /\ ~fatal
    /\ cpu.pc = "returned"
    /\ cpu.mode = "run"
    /\ RunStops(cpu.error)
    /\ cpu' = [cpu EXCEPT !.pc = "done"]
    /\ UNCHANGED <<ticks, ticker, tickerC, waiting, chanBuf, prod, host, thr,
                   fatal, halted, due, mem, clk, calls>>

\* The caller of Execute or Run goes on.
CpuDone ==
    /\ ~fatal
    /\ \/ cpu.pc = "returned" /\ cpu.mode = "execute"
       \/ cpu.pc = "done"
    /\ cpu' = [IdleCpu EXCEPT !.r = cpu.r]
    /\ UNCHANGED <<ticks, ticker, tickerC, waiting, chanBuf, prod, host, thr,
                   fatal, halted, due, mem, clk, calls>>

\* ------------------------------------- methods of the M6502 called directly

\* The methods that work on the stack.
StackOps == {"push", "push16", "pull", "pull16", "Pha", "Php", "Pla", "Plp",
             "Jsr", "Rts", "Brk", "Rti"}

\* The owner of the M6502 calls one method on the CPU as it stands, or Sbc
\* after one Adc, or one stack method after another.
MayCall(op) ==
    \/ calls = <<>>
    \/ op = "Sbc" /\ Len(calls) = 1 /\ calls[1].op = "Adc"
    \/ op \in StackOps /\ Len(calls) = 1 /\ calls[1].op \in StackOps

\* A method is called with address as its argument (the executor of opcode,
\* when op is "Exec") and returns, leaving the registers after.r and the
\* memory after.m; after.x is what it returns or adds to the cycle count.
CallMethod(op, opcode, address, after) ==
    /\ ~fatal
    /\ cpu.pc = "idle"
    /\ MayCall(op)
    /\ calls' = Append(calls, [op |-> op, opcode |-> opcode, r |-> cpu.r,
                               m |-> mem, address |-> address,
                               x |-> after.x])
    /\ cpu' = [cpu EXCEPT !.r = after.r]
    /\ mem' = after.m
    /\ UNCHANGED <<ticks, ticker, tickerC, waiting, chanBuf, prod, host, thr,
                   fatal, halted, due, clk>>

\* A method that returns no cycle count.
NoCycles(after) == [r |-> after.r, m |-> after.m, x |-> 0]

\* M6502.Reset: cpu.Registers.Reset(); cpu.Memory.Reset()
CallReset ==
    \E image \in ResetImages :
        CallMethod("Reset", 0, 0, [r |-> RegistersReset(cpu.r), m |-> image, x |-> 0])

\* cpu.Jmp(cpu.indirectAddress())
CallJmpIndirect ==
    LET operand == indirectAddress(cpu.r, mem)
    IN  CallMethod("Jmp", 0, operand.a, NoCycles(Jmp(operand.r, mem, operand.a)))

Branches == {"Bcc", "Bcs", "Beq", "Bmi", "Bne", "Bpl", "Bvc", "Bvs"}

Branch(which, r, m, address) ==
    CASE which = "Bcc" -> Bcc(r, m, address)
      [] which = "Bcs" -> Bcs(r, m, address)
      [] which = "Beq" -> Beq(r, m, address)
      [] which = "Bmi" -> Bmi(r, m, address)
      [] which = "Bne" -> Bne(r, m, address)
      [] which = "Bpl" -> Bpl(r, m, address)
      [] which = "Bvc" -> Bvc(r, m, address)
      [] which = "Bvs" -> Bvs(r, m, address)

\* cpu.Bcc(cpu.relativeAddress(), &cycles), and so for the other branches
CallBranch(which) ==
    LET operand == relativeAddress(cpu.r, mem)
    IN  CallMethod(which, 0, operand.a, Branch(which, operand.r, mem, operand.a))

\* The opcodes of the table whose operand is absolute indexed or (indirect),Y.
IndexedOpcodes ==
    {op \in DOMAIN InstructionTable :
        InstructionTable[op].mode \in {"absoluteIndexedAddress",
                                       "indirectIndexedAddress"}}

\* The opcodes of the table whose operand is (indirect,X).
IndirectXOpcodes ==
    {op \in DOMAIN InstructionTable :
        InstructionTable[op].mode = "indexedIndirectAddress"}

\* inst.Exec(cpu) of an instruction of the table, on the operand at PC
CallExec(opcode) ==
    LET done == Exec(opcode, cpu.r, mem)
        operand == Address(InstructionTable[opcode].mode,
                           InstructionTable[opcode].index,
                           InstructionTable[opcode].cycles, cpu.r, mem)
    IN  CallMethod("Exec", opcode, operand.a,
                   [r |-> done.r, m |-> done.m, x |-> done.cycles])

CallBit(address) == CallMethod("Bit", 0, address, NoCycles(Bit(cpu.r, mem, address)))

CallAdc(address) == CallMethod("Adc", 0, address, NoCycles(Adc(cpu.r, mem, address)))

CallSbc(address) == CallMethod("Sbc", 0, address, NoCycles(Sbc(cpu.r, mem, address)))

CallCmp(address) == CallMethod("Cmp", 0, address, NoCycles(Cmp(cpu.r, mem, address)))

CallCpx(address) == CallMethod("Cpx", 0, address, NoCycles(Cpx(cpu.r, mem, address)))

CallCpy(address) == CallMethod("Cpy", 0, address, NoCycles(Cpy(cpu.r, mem, address)))

\* The transfers: cpu.Tax() and so on.
Transfers == {"Tax", "Tay", "Txa", "Tya", "Tsx", "Txs"}

CallTransfer(which) ==
    CallMethod(which, 0, 0, NoCycles(Operate(which, cpu.r, mem, 0)))

\* cpu.push(value), cpu.push16(value)
CallPush(value) == CallMethod("push", 0, value, NoCycles(push(cpu.r, mem, value)))

CallPush16(value) ==
    CallMethod("push16", 0, value, NoCycles(push16(cpu.r, mem, value)))

\* cpu.pull(), cpu.pull16(): x is the value returned
CallPull ==
    LET got == pull(cpu.r, mem)
    IN  CallMethod("pull", 0, 0, [r |-> got.r, m |-> mem, x |-> got.value])

CallPull16 ==
    LET got == pull16(cpu.r, mem)
    IN  CallMethod("pull16", 0, 0, [r |-> got.r, m |-> mem, x |-> got.value])

CallPha == CallMethod("Pha", 0, 0, NoCycles(Pha(cpu.r, mem)))

CallPhp == CallMethod("Php", 0, 0, NoCycles(Php(cpu.r, mem)))

CallPla == CallMethod("Pla", 0, 0, NoCycles(Pla(cpu.r, mem)))

CallPlp == CallMethod("Plp", 0, 0, NoCycles(Plp(cpu.r, mem)))

\* cpu.Jsr(cpu.absoluteAddress())
CallJsr ==
    LET operand == absoluteAddress(cpu.r, mem)
    IN  CallMethod("Jsr", 0, operand.a, NoCycles(Jsr(operand.r, mem, operand.a)))

CallRts == CallMethod("Rts", 0, 0, NoCycles(Rts(cpu.r, mem)))

CallBrk == CallMethod("Brk", 0, 0, NoCycles(Brk(cpu.r, mem)))

CallRti == CallMethod("Rti", 0, 0, NoCycles(Rti(cpu.r, mem)))

\* ----------------------------------------------------- the specifications

ClockNext ==
    \/ TickerFire
    \/ \E p \in Producers : ProdTick(p)
    \/ \E p \in Producers : ProdLookup(p)
    \/ \E p \in Producers : ProdSend(p)
    \/ \E p \in Producers : ProdDelete(p)
    \/ \E p \in Producers : ProdExit(p)
    \/ StartRead
    \/ StartCheck
    \/ StopCheck
    \/ \E p \in Producers : StopSend(p)
    \/ \E w \in DOMAIN thr : AwaitRead(w)
    \/ \E w \in DOMAIN thr : AwaitWrite(w)
    \/ \E w \in DOMAIN thr : AwaitRecv(w)
    \/ \E w \in DOMAIN thr : AwaitReturn(w)
    \/ MapFault

\* Spec: NumWaiters goroutines call Clock.Await while the host starts and
\* stops the clock.
Init ==
    /\ NewClock
    /\ host = IdleHost
    /\ thr = [w \in Waiters |-> IdleThread]
    /\ InitHistory
    /\ NoCpu

Next ==
    \/ ClockNext
    \/ \E w \in Waiters : \E T \in 0..MaxTarget : AwaitCall(w, "clock", 1, T)
    \/ \E w \in Waiters : AwaitDone(w)

Spec == Init /\ [][Next]_vars

\* SpecDivider: one goroutine calls Await on the clock or on a divider of it.
InitDivider ==
    /\ NewClock
    /\ host = IdleHost
    /\ thr = [w \in {1} |-> IdleThread]
    /\ InitHistory
    /\ NoCpu

NextDivider ==
    \/ ClockNext
    \/ \E T \in Targets : AwaitCall(1, "clock", 1, T)
    \/ \E d \in Divisors : \E T \in Targets : AwaitCall(1, "divider", d, T)
    \/ AwaitDone(1)

SpecDivider == InitDivider /\ [][NextDivider]_vars

\* SpecCpu: an M6502 executes a program against the clock, or a divider of
\* it, that the host starts and stops.

\* The opcodes tried: every opcode of the table, and some outside it.
UnmappedSample == {0, 2, 255}
OpcodeSample == DOMAIN InstructionTable \cup UnmappedSample

\* The operand bytes tried.
OperandSample == {255}

\* The index registers tried.
IndexSample == {0, 1}

\* A memory with the bytes of program from address 0 on.
Image(program) == [a \in 0..(Len(program) - 1) |-> program[a + 1]]

\* One instruction with its operand, then an opcode outside the table.
Programs == {Image(<<op, b, 0, 2>>) : op \in OpcodeSample, b \in OperandSample}

InitCpu ==
    /\ NewClock
    /\ host = IdleHost
    /\ thr = [w \in {CpuThread} |-> IdleThread]
    /\ InitHistory
    /\ \E x \in IndexSample :
          cpu = [IdleCpu EXCEPT !.r = [NewRegisters EXCEPT !.X = x, !.Y = x]]
    /\ mem \in Programs
    /\ clk \in {[via |-> "clock", d |-> 1]}
                 \cup {[via |-> "divider", d |-> d] : d \in Divisors}
    /\ calls = <<>>

NextCpu ==
    \/ ClockNext
    \/ ExecuteCall("execute")
    \/ ExecuteCall("run")
    \/ RunLoop
    \/ ExecuteFetch
    \/ ExecuteAwait
    \/ ExecuteReturn
    \/ RunReturn
    \/ CpuDone

SpecCpu == InitCpu /\ [][NextCpu]_vars

\* The PCs tried: at the ends of the address space and around page borders.
PCSample == {0, 254, 255, 33021, 65534, 65535}

\* The bytes tried where a claim is about their bits.
ByteSample == {0, 1, 64, 127, 128, 192, 255}

\* The low and high operand bytes tried where the operand is an address.
LowSample == {0, 254, 255}
HighSample == {0, 2, 255}

\* The addresses, outside the program, that hold a byte of their own.
ProbeAddresses == {0, 1, 255, 256, 512, 513, 767, 768, 65024, 65280, 65535}

\* The byte a probe address holds.
Pattern(a) == (17 + 5 * (a % Byte) + 3 * (a \div Byte)) % Byte

\* A memory with the operand bytes b1, b2 at pc and the pattern elsewhere.
ProgramAt(pc, b1, b2) ==
    (pc :> b1) @@ (((pc + 1) % Word16) :> b2)
        @@ [a \in ProbeAddresses |-> Pattern(a)]

\* A CPU with the registers and the memory of case c, its clock not started.
InitCase(c) ==
    /\ NewClock
    /\ host = IdleHost
    /\ thr = [w \in {CpuThread} |-> IdleThread]
    /\ InitHistory
    /\ clk = [via |-> "clock", d |-> 1]
    /\ calls = <<>>
    /\ cpu = [IdleCpu EXCEPT !.r = c.r]
    /\ mem = c.m

\* The methods of Operation that take an address, and those that take none.
MemoryOperations == {"Ora", "Inc", "Dec", "Asl", "Lsr", "Rol", "Ror"}
RegisterOperations == {"Inx", "Iny", "Dex", "Dey", "AslA", "LsrA", "RolA", "RorA",
                       "Clc", "Cld", "Cli", "Clv", "Sec", "Sed", "Sei"}

\* cpu.Ora(address), cpu.Inx() and so on: one of the methods of Operation
CallOperation(mn, address) ==
    CallMethod(mn, 0, address, NoCycles(Operation(mn, cpu.r, mem, address)))

\* SpecBranch: the owner of an M6502 calls a branch on the offset at PC.

\* The flags a branch tests, in every combination.
BranchFlags == {c + z + v + n : c \in {0, FlagC}, z \in {0, FlagZ},
                                v \in {0, FlagV}, n \in {0, FlagN}}

\* Every offset, at every sampled PC, under every combination of the flags.
BranchCase(pc, b, p) ==
    [r |-> [NewRegisters EXCEPT !.PC = pc, !.P = p], m |-> (pc :> b)]

InitBranch ==
    \E pc \in PCSample, b \in 0..(Byte - 1), p \in BranchFlags :
        InitCase(BranchCase(pc, b, p))

NextBranch == \E which \in Branches : CallBranch(which)

SpecBranch == InitBranch /\ [][NextBranch]_vars

\* SpecIns: the owner of an M6502 calls its reset, an indirect jump, an
\* indexed or indirect instruction of the table, Bit, or one of the methods
\* no instruction of the table calls.

\* An operand that is an address, with index registers that cross a page or
\* do not.
PointerCase(pc, lo, hi, x, y) ==
    [r |-> [NewRegisters EXCEPT !.PC = pc, !.X = x, !.Y = y, !.A = 1],
     m |-> ProgramAt(pc, lo, hi)]

\* A P, with bytes in A and at PC.
BitCase(a, b, p) ==
    [r |-> [NewRegisters EXCEPT !.PC = 1024, !.A = a, !.P = p, !.SP = 255],
     m |-> (1024 :> b)]

\* The pointers at every sampled PC, or every P with sampled bytes.
InitIns ==
    \/ \E pc \in PCSample, lo \in LowSample, hi \in HighSample,
          x \in {0, 1}, y \in {0, 255} :
            InitCase(PointerCase(pc, lo, hi, x, y))
    \/ \E a \in ByteSample, b \in ByteSample, p \in 0..(Byte - 1) :
            InitCase(BitCase(a, b, p))

NextIns ==
    \/ CallReset
    \/ CallJmpIndirect
    \/ \E opcode \in IndexedOpcodes : CallExec(opcode)
    \/ \E opcode \in IndirectXOpcodes : CallExec(opcode)
    \/ \E address \in DOMAIN mem : CallBit(address)
    \/ \E mn \in MemoryOperations, address \in DOMAIN mem : CallOperation(mn, address)
    \/ \E mn \in RegisterOperations : CallOperation(mn, 0)

SpecIns == InitIns /\ [][NextIns]_vars

\* SpecAlu: the owner of an M6502 calls Adc, Sbc or a compare, or Adc and then
\* Sbc.

\* The packed-BCD bytes: two decimal digits.
PackedBCD == {16 * h + l : h \in 0..9, l \in 0..9}

\* The addresses the operand is tried at.
AluAddresses == {512}

\* Registers with a in A, and X and Y apart from it, and operand b.
AluCase(a, b, p) ==
    [r |-> [NewRegisters EXCEPT !.A = a, !.X = (a + 85) % Byte,
                                !.Y = (a + 170) % Byte, !.P = p],
     m |-> [x \in AluAddresses |-> b]]

\* Binary mode: every byte in A and in the operand, carry clear and set.
\* Decimal mode: every packed-BCD byte in A and in the operand, carry clear
\* and set. Both modes on sampled bytes with the other flags set before.
InitAlu ==
    \/ \E a \in 0..(Byte - 1), b \in 0..(Byte - 1), p \in {0, FlagC} :
            InitCase(AluCase(a, b, p))
    \/ \E a \in PackedBCD, b \in PackedBCD, p \in {FlagD, FlagD + FlagC} :
            InitCase(AluCase(a, b, p))
    \/ \E a \in ByteSample, b \in ByteSample,
          p \in {0, FlagC, FlagD, FlagC + FlagD} :
            InitCase(AluCase(a, b, FlagN + FlagV + FlagI + FlagZ + p))

NextAlu ==
    \/ \E address \in AluAddresses : CallAdc(address)
    \/ \E address \in AluAddresses : CallSbc(address)
    \/ \E address \in AluAddresses : CallCmp(address)
    \/ \E address \in AluAddresses : CallCpx(address)
    \/ \E address \in AluAddresses : CallCpy(address)

SpecAlu == InitAlu /\ [][NextAlu]_vars

\* SpecStack: the owner of an M6502 calls a transfer, or one or two of the
\* methods that work on the stack.

\* The stack page holds a byte of its own at the three addresses on either
\* side of the stack pointer and at the stack pointer; the operand of a Jsr
\* is at pc, the vector of Brk at 0xfffe.
StackImage(pc, lo, hi, sp) ==
    (pc :> lo) @@ (((pc + 1) % Word16) :> hi) @@ (65534 :> 52) @@ (65535 :> 18)
        @@ [a \in {StackAddress((sp + Byte + k) % Byte) : k \in -3..3}
                |-> Pattern(a)]

\* The PCs tried: in the middle, at the ends of the address space and in the
\* stack page.
StackPCs == {4097, 0, 65535, 511}

\* The targets of Jsr tried, low byte and high byte.
JsrTargets == {<<0, 80>>, <<255, 255>>}

\* The values pushed.
Pushed == {0, 129}
Pushed16 == {4660, 65280}

StackCase(sp, pc, target, p) ==
    [r |-> [A |-> 170, X |-> 1, Y |-> 2, P |-> p, SP |-> sp, PC |-> pc],
     m |-> StackImage(pc, target[1], target[2], sp)]

\* Registers that all differ, around v.
TransferCase(v, p) ==
    [r |-> [A |-> (v + 85) % Byte, X |-> v, Y |-> (v + 170) % Byte, P |-> p,
            SP |-> (v + 50) % Byte, PC |-> 4097],
     m |-> StackImage(4097, 0, 80, (v + 50) % Byte)]

\* Every SP at the sampled PCs and targets; every P at the ends of the
\* stack; every byte in the registers under P with Z and N set or clear.
InitStack ==
    \/ \E sp \in 0..(Byte - 1), pc \in StackPCs, target \in JsrTargets,
          p \in {0, 239} :
            InitCase(StackCase(sp, pc, target, p))
    \/ \E sp \in {0, 1, 2, 255}, p \in 0..(Byte - 1) :
            InitCase(StackCase(sp, 4097, <<0, 80>>, p))
    \/ \E v \in 0..(Byte - 1), p \in {0, FlagZ, FlagN, 255} :
            InitCase(TransferCase(v, p))

NextStack ==
    \/ \E which \in Transfers : CallTransfer(which)
    \/ \E value \in Pushed : CallPush(value)
    \/ \E value \in Pushed16 : CallPush16(value)
    \/ CallPull
    \/ CallPull16
    \/ CallPha
    \/ CallPhp
    \/ CallPla
    \/ CallPlp
    \/ CallJsr
    \/ CallRts
    \/ CallBrk
    \/ CallRti

SpecStack == InitStack /\ [][NextStack]_vars

\* ------------------------------------------------------------ the claims

\* The maintainTime goroutines that have not returned.
LiveProducers == {p \in Producers : prod[p].pc # "none"}

\* A maintainTime goroutine is in its loop.
Running == \E p \in Producers : prod[p].pc \notin {"none", "stopping"}

\* No maintainTime goroutine is between clock.ticks++ and the end of the
\* release of the waiters of that tick.
ProducerQuiet == \A p \in Producers : prod[p].pc \in {"none", "select", "stopping"}

\* C1 (as claimed): no wake-up is lost. A goroutine that found
\* ticks < target and blocks in <-C has its wake-up in C once the clock has
\* reached the target and maintainTime is done with that tick; otherwise
\* nothing will ever send to C, and Await never returns.
C1_NoLostWakeup ==
    \A w \in DOMAIN thr :
        (~fatal /\ thr[w].pc = "recv" /\ ticks >= thr[w].tick /\ ProducerQuiet)
            => thr[w].C \in chanBuf

\* C2: the tick counter never decreases, and it keeps its value before the
\* first Start and from the return of Stop to the next call of Start.
C2_TicksOnlyAdvanceWhileRunning ==
    [][ticks' >= ticks /\ (halted => ticks' = ticks)]_vars

\* C2 witness: Stop has returned after the clock ticked, and a tick of the
\* ticker is waiting that nobody takes.
C2_Witness == halted /\ ticks > 0 /\ ticker /\ tickerC = 1

\* C3 (as claimed): whenever Await(T) has returned, on the Clock or through a
\* Divider, the count it returned and the count of the clock in the caller's
\* domain are at least T.
C3_AwaitReturnsAtOrAfterTarget ==
    \A w \in DOMAIN thr :
        thr[w].pc = "returned" =>
            /\ thr[w].ret >= thr[w].T
            /\ DomainTicks(thr[w].via, thr[w].d, ticks) >= thr[w].T

\* C4 (as claimed): when the clock reaches a tick, every waiter registered
\* for it at that moment is sent its wake-up by the time maintainTime is done
\* with the tick.
C4_AllRegisteredReleased == (~fatal /\ ProducerQuiet) => due = {}

\* C5: an Await whose target the clock has reached (in the caller's domain)
\* goes straight to its return: it makes no channel, leaves the wait list
\* alone, is not blocked, and returns the tick count of the clock then.
C5_PassedTarget(w) ==
    /\ thr[w].pc = "idle"
    /\ thr'[w].pc # "idle"
    /\ DomainTicks(thr'[w].via, thr'[w].d, ticks) >= thr'[w].T

C5_AwaitOfPassedTargetReturnsAtOnce ==
    /\ [][\A w \in DOMAIN thr :
            /\ C5_PassedTarget(w) =>
                  /\ thr'[w].pc = "after"
                  /\ thr'[w].C = 0
                  /\ waiting' = waiting
                  /\ chanBuf' = chanBuf
            /\ (thr[w].pc = "after" /\ thr'[w].pc # "after") =>
                  /\ thr'[w].pc = "returned"
                  /\ thr'[w].ret = DomainTicks(thr[w].via, thr[w].d, ticks)
                  /\ waiting' = waiting]_vars
    /\ [](\A w \in DOMAIN thr :
            (~fatal /\ thr[w].pc = "after") => ENABLED AwaitReturn(w))

\* C5 witness: Await(T) with T > 0 has returned without a channel while the
\* clock, started and stopped before, has no ticker.
C5_Witness ==
    /\ thr[1].pc = "returned"
    /\ thr[1].C = 0
    /\ thr[1].T > 0
    /\ ~ticker
    /\ halted

\* C6: Start on a running clock returns the tick count it read, leaves the
\* ticker and the maintainTime goroutine as they are; there is never a second
\* maintainTime, and the counter moves only by one, on a tick taken from the
\* ticker.
C6_StartIdempotentWhileRunning ==
    [][/\ (host.pc = "idle" /\ host'.pc = "start_check") => host'.ret = ticks
       /\ (host.pc = "start_check" /\ host'.pc = "idle" /\ Running) =>
             /\ prod' = prod
             /\ ticker' = ticker
             /\ tickerC' = tickerC
             /\ ticks' = ticks
       /\ Cardinality({p \in Producers : prod'[p].pc # "none"}) <= 1
       /\ ticks' # ticks => (ticks' = ticks + 1 /\ tickerC = 1 /\ tickerC' = 0)]_vars

\* C6 witness: Start is at work on a clock that runs and has ticked.
C6_Witness == host.pc = "start_check" /\ Running /\ host.ret > 0

\* C7 (as claimed): a Stop called while the clock is not running (never
\* started, or Stop returned and Start was not called since) does not come to
\* block in its send on stopChan.
C7_StopOfStoppedClockReturns == ~(~fatal /\ halted /\ host.pc = "stop_send")

\* C8 (as claimed): Divider.Await(t) waits for the master tick t*d and
\* returns the master's count divided by d, which is at least t.
C8_DividerAwaitsProduct ==
    \A w \in DOMAIN thr :
        (thr[w].pc # "idle" /\ thr[w].via = "divider") =>
            /\ thr[w].tick = thr[w].T * thr[w].d
            /\ thr[w].pc = "returned" =>
                  /\ thr[w].ret <= ticks \div thr[w].d
                  /\ thr[w].ret >= thr[w].T

\* C9: Execute returns the cycle count of its instruction with the clock at
\* or past start + cycles, start being the count sampled before the fetch;
\* the instruction is done when Await is called, and from the call of Await
\* to the return nothing of the CPU or the memory changes.
C9_ExecuteReturnsAfterItsCycles ==
    /\ []((cpu.pc = "returned" /\ cpu.error = <<>>) =>
            /\ cpu.opcode \in DOMAIN InstructionTable
            /\ cpu.cycles >= InstructionTable[cpu.opcode].base
            /\ DomainTicks(clk.via, clk.d, ticks) >= cpu.start + cpu.cycles)
    /\ [][cpu.pc \in {"await", "in_await"} =>
             /\ cpu'.r = cpu.r
             /\ cpu'.cycles = cpu.cycles
             /\ cpu'.start = cpu.start
             /\ mem' = mem]_vars

\* C9 witness: an Execute that began after the clock had ticked has returned
\* its cycle count, on the very tick it awaited.
C9_Witness ==
    /\ cpu.pc = "returned"
    /\ cpu.error = <<>>
    /\ cpu.start > 0
    /\ cpu.cycles > 0
    /\ DomainTicks(clk.via, clk.d, ticks) = cpu.start + cpu.cycles

\* C10: an Execute that fetched a byte outside the instruction table returns
\* 0 cycles and BadOpCodeError of that byte, the byte PC points at; any other
\* Execute returns no error; Run returns only from an Execute that returned
\* an error, with that error, the registers and the memory as Execute left
\* them.
C10_BadOpcodeEndsRun ==
    /\ [](cpu.pc \in {"returned", "done"} =>
            IF cpu.opcode \in DOMAIN InstructionTable
              THEN cpu.error = <<>>
              ELSE /\ cpu.cycles = 0
                   /\ cpu.error = <<cpu.opcode>>
                   /\ cpu.opcode = Fetch(mem, cpu.r.PC))
    /\ [][(cpu.pc # "done" /\ cpu'.pc = "done") =>
             /\ cpu.pc = "returned"
             /\ cpu.error # <<>>
             /\ cpu' = [cpu EXCEPT !.pc = "done"]
             /\ mem' = mem]_vars

\* C10 witness: Run has executed an instruction, met a byte outside the
\* table, and returned the error.
C10_Witness == cpu.pc = "done" /\ cpu.error # <<>> /\ cpu.r.PC > 0

\* C11 (as claimed): when Execute returns BadOpCodeError, PC has been advanced
\* past the opcode byte.
C11_BadOpcodeAdvancesPC ==
    [][(cpu.pc = "fetch" /\ cpu'.pc = "returned" /\ cpu'.error # <<>>) =>
          cpu'.r.PC = (cpu.r.PC + 1) % Word16]_vars

\* C11 (amended): when Execute returns BadOpCodeError, PC has not moved: it
\* holds the address of the byte that has no instruction, and no register and
\* no byte of memory has changed.
C11_BadOpcodeLeavesPC ==
    [][(cpu.pc = "fetch" /\ cpu'.pc = "returned" /\ cpu'.error # <<>>) =>
          /\ cpu'.r = cpu.r
          /\ mem' = mem
          /\ cpu'.error = <<Fetch(mem, cpu'.r.PC)>>]_vars

\* C11 witness: Execute, called for one instruction at a PC past 0, has
\* returned BadOpCodeError of the byte PC points at.
C11_Witness ==
    /\ cpu.pc = "returned"
    /\ cpu.mode = "execute"
    /\ cpu.error # <<>>
    /\ cpu.r.PC > 0
    /\ cpu.error = <<Fetch(mem, cpu.r.PC)>>

\* The last method called directly is op.
Called(op) == calls # <<>> /\ calls[Len(calls)].op = op

\* The little-endian word at addresses a and a + 1 of memory m.
WordAt(m, a) == MakeWord(Fetch(m, (a + 1) % Word16), Fetch(m, a))

\* C12 (as claimed): after M6502.Reset, A = X = Y = 0, P = I, SP = 0xfd and PC
\* is the word at the reset vector 0xfffc/0xfffd.
C12_ResetLoadsVector ==
    Called("Reset") =>
        /\ cpu.r.A = 0 /\ cpu.r.X = 0 /\ cpu.r.Y = 0
        /\ cpu.r.P = FlagI
        /\ cpu.r.SP = 253
        /\ cpu.r.PC = WordAt(mem, 65532)

\* The documented 6502 instruction set: the base cycle count of each of its
\* 151 opcodes, by mnemonic.
DocumentedCycles ==
       (105 :> 2) @@ (101 :> 3) @@ (117 :> 4) @@ (109 :> 4) @@ (125 :> 4) @@ (121 :> 4) @@ (97 :> 6) @@ (113 :> 5)  \* ADC
    @@ (41 :> 2) @@ (37 :> 3) @@ (53 :> 4) @@ (45 :> 4) @@ (61 :> 4) @@ (57 :> 4) @@ (33 :> 6) @@ (49 :> 5)  \* AND
    @@ (10 :> 2) @@ (6 :> 5) @@ (22 :> 6) @@ (14 :> 6) @@ (30 :> 7)  \* ASL
    @@ (144 :> 2)  \* BCC
    @@ (176 :> 2)  \* BCS
    @@ (240 :> 2)  \* BEQ
    @@ (36 :> 3) @@ (44 :> 4)  \* BIT
    @@ (48 :> 2)  \* BMI
    @@ (208 :> 2)  \* BNE
    @@ (16 :> 2)  \* BPL
    @@ (0 :> 7)  \* BRK
    @@ (80 :> 2)  \* BVC
    @@ (112 :> 2)  \* BVS
    @@ (24 :> 2)  \* CLC
    @@ (216 :> 2)  \* CLD
    @@ (88 :> 2)  \* CLI
    @@ (184 :> 2)  \* CLV
    @@ (201 :> 2) @@ (197 :> 3) @@ (213 :> 4) @@ (205 :> 4) @@ (221 :> 4) @@ (217 :> 4) @@ (193 :> 6) @@ (209 :> 5)  \* CMP
    @@ (224 :> 2) @@ (228 :> 3) @@ (236 :> 4)  \* CPX
    @@ (192 :> 2) @@ (196 :> 3) @@ (204 :> 4)  \* CPY
    @@ (198 :> 5) @@ (214 :> 6) @@ (206 :> 6) @@ (222 :> 7)  \* DEC
    @@ (202 :> 2)  \* DEX
    @@ (136 :> 2)  \* DEY
    @@ (73 :> 2) @@ (69 :> 3) @@ (85 :> 4) @@ (77 :> 4) @@ (93 :> 4) @@ (89 :> 4) @@ (65 :> 6) @@ (81 :> 5)  \* EOR
    @@ (230 :> 5) @@ (246 :> 6) @@ (238 :> 6) @@ (254 :> 7)  \* INC
    @@ (232 :> 2)  \* INX
    @@ (200 :> 2)  \* INY
    @@ (76 :> 3) @@ (108 :> 5)  \* JMP
    @@ (32 :> 6)  \* JSR
    @@ (169 :> 2) @@ (165 :> 3) @@ (181 :> 4) @@ (173 :> 4) @@ (189 :> 4) @@ (185 :> 4) @@ (161 :> 6) @@ (177 :> 5)  \* LDA
    @@ (162 :> 2) @@ (166 :> 3) @@ (182 :> 4) @@ (174 :> 4) @@ (190 :> 4)  \* LDX
    @@ (160 :> 2) @@ (164 :> 3) @@ (180 :> 4) @@ (172 :> 4) @@ (188 :> 4)  \* LDY
    @@ (74 :> 2) @@ (70 :> 5) @@ (86 :> 6) @@ (78 :> 6) @@ (94 :> 7)  \* LSR
    @@ (234 :> 2)  \* NOP
    @@ (9 :> 2) @@ (5 :> 3) @@ (21 :> 4) @@ (13 :> 4) @@ (29 :> 4) @@ (25 :> 4) @@ (1 :> 6) @@ (17 :> 5)  \* ORA
    @@ (72 :> 3)  \* PHA
    @@ (8 :> 3)  \* PHP
    @@ (104 :> 4)  \* PLA
    @@ (40 :> 4)  \* PLP
    @@ (42 :> 2) @@ (38 :> 5) @@ (54 :> 6) @@ (46 :> 6) @@ (62 :> 7)  \* ROL
    @@ (106 :> 2) @@ (102 :> 5) @@ (118 :> 6) @@ (110 :> 6) @@ (126 :> 7)  \* ROR
    @@ (64 :> 6)  \* RTI
    @@ (96 :> 6)  \* RTS
    @@ (233 :> 2) @@ (229 :> 3) @@ (245 :> 4) @@ (237 :> 4) @@ (253 :> 4) @@ (249 :> 4) @@ (225 :> 6) @@ (241 :> 5)  \* SBC
    @@ (56 :> 2)  \* SEC
    @@ (248 :> 2)  \* SED
    @@ (120 :> 2)  \* SEI
    @@ (133 :> 3) @@ (149 :> 4) @@ (141 :> 4) @@ (157 :> 5) @@ (153 :> 5) @@ (129 :> 6) @@ (145 :> 6)  \* STA
    @@ (134 :> 3) @@ (150 :> 4) @@ (142 :> 4)  \* STX
    @@ (132 :> 3) @@ (148 :> 4) @@ (140 :> 4)  \* STY
    @@ (170 :> 2)  \* TAX
    @@ (168 :> 2)  \* TAY
    @@ (186 :> 2)  \* TSX
    @@ (138 :> 2)  \* TXA
    @@ (154 :> 2)  \* TXS
    @@ (152 :> 2)  \* TYA

\* C13: after construction the instruction table maps exactly the documented
\* 6502 instruction set: every documented opcode has an executor with its
\* documented base cycle count, and every other byte value is unmapped, so
\* that Execute returns BadOpCodeError for the undocumented opcodes only.
C13_TableIsDocumentedSet ==
    /\ \A op \in 0..(Byte - 1) :
          IF op \in DOMAIN DocumentedCycles
          THEN /\ op \in DOMAIN InstructionTable
               /\ InstructionTable[op].base = DocumentedCycles[op]
          ELSE op \notin DOMAIN InstructionTable
    /\ (cpu.pc = "returned" /\ cpu.error # <<>>) =>
          cpu.error[1] \notin DOMAIN DocumentedCycles

\* The call the last method was entered with.
LastCall == calls[Len(calls)]

\* C14: an indirect jump reads the pointer at PC, the low byte of its
\* destination at the pointer and the high byte at pointer + 1, unless the
\* low byte of the pointer is 0xFF: then the high byte is read at the start
\* of the pointer's page. PC moves past the two operand bytes before the jump,
\* and the jump changes PC alone.
C14_IndirectJumpStaysInPage ==
    Called("Jmp") =>
        LET c == LastCall
            lo == Fetch(c.m, c.r.PC)
            hi == Fetch(c.m, (c.r.PC + 1) % Word16)
            pointer == hi * 256 + lo
            destLow == Fetch(c.m, pointer)
            destHigh == IF lo = 255 THEN Fetch(c.m, hi * 256)
                                    ELSE Fetch(c.m, pointer + 1)
        IN  /\ c.address = destHigh * 256 + destLow
            /\ indirectAddress(c.r, c.m).r.PC = (c.r.PC + 2) % Word16
            /\ cpu.r = [c.r EXCEPT !.PC = destHigh * 256 + destLow]
            /\ mem = c.m

\* A jump through the pointer 0x02FF, where the byte at 0x0200 and the byte
\* at 0x0300 differ.
C14_Witness ==
    /\ Called("Jmp")
    /\ Fetch(LastCall.m, LastCall.r.PC) = 255
    /\ Fetch(LastCall.m, (LastCall.r.PC + 1) % Word16) = 2
    /\ Fetch(mem, 512) # Fetch(mem, 768)
    /\ cpu.r.PC = Fetch(mem, 512) * 256 + Fetch(mem, 767)

\* The flag a branch tests, and whether it branches when the flag is set.
BranchFlag(which) ==
    CASE which \in {"Bcc", "Bcs"} -> FlagC
      [] which \in {"Beq", "Bne"} -> FlagZ
      [] which \in {"Bmi", "Bpl"} -> FlagN
      [] which \in {"Bvc", "Bvs"} -> FlagV

BranchOnSet(which) == which \in {"Bcs", "Beq", "Bmi", "Bvs"}

\* C15: a branch whose condition is false leaves PC after its operand and
\* adds no cycle; a branch whose condition is true moves PC to the PC after
\* the operand plus the sign-extended offset (mod 65536) and adds one cycle,
\* and one more exactly when the high byte of the target differs from the high
\* byte of the PC after the operand. Nothing else changes.
C15_BranchTargetAndCycles ==
    (calls # <<>> /\ LastCall.op \in Branches) =>
        LET c == LastCall
            offset == Fetch(c.m, c.r.PC)
            post == (c.r.PC + 1) % Word16
            signed == IF offset >= 128 THEN offset - 256 ELSE offset
            target == (post + signed + 65536) % 65536
            set == (c.r.P \div BranchFlag(c.op)) % 2 = 1
            taken == set = BranchOnSet(c.op)
        IN  /\ mem = c.m
            /\ IF taken
                 THEN /\ cpu.r = [c.r EXCEPT !.PC = target]
                      /\ c.x = IF target \div 256 # post \div 256 THEN 2 ELSE 1
                 ELSE /\ cpu.r = [c.r EXCEPT !.PC = post]
                      /\ c.x = 0

\* Beq with Z set and offset +4 just below a page border is taken into the
\* next page and adds two cycles.
C15_Witness ==
    /\ Called("Beq")
    /\ LastCall.r.PC = 33021
    /\ Fetch(mem, 33021) = 4
    /\ BitAnd(LastCall.r.P, FlagZ) = FlagZ
    /\ cpu.r.PC = 33026
    /\ LastCall.x = 2

\* The opcodes of the reads (LDA, LDX, LDY, AND, EOR) by operand: absolute
\* indexed by X, absolute indexed by Y, and (indirect),Y.
ReadsAbsoluteX == {189, 188, 61, 93}
ReadsAbsoluteY == {185, 190, 57, 89}
ReadsIndirectY == {177, 49, 81}

\* C16: a read whose operand is absolute indexed or (indirect),Y uses the
\* address base + index (mod 65536), where base is the address in the operand
\* (for (indirect),Y, the address held at the zero-page pointer in the
\* operand), and returns its documented base cycle count plus one exactly when
\* the high byte of base differs from the high byte of base + index.
C16_IndexedReadCycles ==
    (Called("Exec") /\ LastCall.opcode \in
            ReadsAbsoluteX \cup ReadsAbsoluteY \cup ReadsIndirectY) =>
        LET c == LastCall
            b1 == Fetch(c.m, c.r.PC)
            b2 == Fetch(c.m, (c.r.PC + 1) % Word16)
            base == IF c.opcode \in ReadsIndirectY
                      THEN Fetch(c.m, b1 + 1) * 256 + Fetch(c.m, b1)
                      ELSE b2 * 256 + b1
            index == IF c.opcode \in ReadsAbsoluteX THEN c.r.X ELSE c.r.Y
            effective == (base + index) % 65536
            crossed == base \div 256 # effective \div 256
        IN  /\ c.address = effective
            /\ c.x = DocumentedCycles[c.opcode] + (IF crossed THEN 1 ELSE 0)

\* LDA (indirect),Y through the pointer at 0x00 with Y = 0xFF crosses a page
\* and takes 6 cycles; the accumulator holds the byte at the address.
C16_Witness ==
    /\ Called("Exec")
    /\ LastCall.opcode = 177
    /\ Fetch(LastCall.m, LastCall.r.PC) = 0
    /\ LastCall.r.Y = 255
    /\ LastCall.address = Fetch(mem, 1) * 256 + Fetch(mem, 0) + 255
    /\ LastCall.address \div 256 = Fetch(mem, 1) + 1
    /\ LastCall.x = 6
    /\ cpu.r.A = Fetch(mem, LastCall.address)

\* The number a packed-BCD byte encodes, and the packed-BCD byte of a number
\* below 100.
FromBCD(b) == 10 * (b \div 16) + (b % 16)
ToBCD(n) == 16 * (n \div 10) + (n % 10)

\* Whether flag is set in the status P.
IsSet(P, flag) == BitAnd(P, flag) = flag

\* C17: with D set, Adc of two packed-BCD bytes A and M with carry-in C leaves
\* in A the packed-BCD byte of (A + M + C) mod 100, and leaves C set exactly
\* when the decimal sum exceeds 99.
C17_DecimalAdcSumAndCarry ==
    (Called("Adc") /\ IsSet(LastCall.r.P, FlagD)
        /\ LastCall.r.A \in PackedBCD
        /\ Fetch(LastCall.m, LastCall.address) \in PackedBCD) =>
        LET c == LastCall
            sum == FromBCD(c.r.A) + FromBCD(Fetch(c.m, c.address))
                       + (IF IsSet(c.r.P, FlagC) THEN 1 ELSE 0)
        IN  /\ cpu.r.A = ToBCD(sum % 100)
            /\ IsSet(cpu.r.P, FlagC) <=> sum > 99

\* The compares, and the register each compares with memory.
Compares == {"Cmp", "Cpx", "Cpy"}
ComparedRegister(which, r) ==
    CASE which = "Cmp" -> r.A
      [] which = "Cpx" -> r.X
      [] which = "Cpy" -> r.Y

\* C18: Sbc (in binary mode, and in decimal mode on packed-BCD operands) and
\* the compares leave C set exactly when there was no borrow: when the
\* minuend is at least the subtrahend plus the borrow carried in (none for a
\* compare). A compare leaves Z set exactly when the register equals the
\* byte in memory, and changes no register and not V.
C18_CarryIsNoBorrow ==
    /\ Called("Sbc") =>
          LET c == LastCall
              M == Fetch(c.m, c.address)
              borrow == IF IsSet(c.r.P, FlagC) THEN 0 ELSE 1
          IN  IF IsSet(c.r.P, FlagD)
                THEN (c.r.A \in PackedBCD /\ M \in PackedBCD) =>
                        (IsSet(cpu.r.P, FlagC)
                            <=> FromBCD(c.r.A) >= FromBCD(M) + borrow)
                ELSE IsSet(cpu.r.P, FlagC) <=> c.r.A >= M + borrow
    /\ (calls # <<>> /\ LastCall.op \in Compares) =>
          LET c == LastCall
              M == Fetch(c.m, c.address)
              register == ComparedRegister(c.op, c.r)
          IN  /\ IsSet(cpu.r.P, FlagC) <=> register >= M
              /\ IsSet(cpu.r.P, FlagZ) <=> register = M
              /\ IsSet(cpu.r.P, FlagV) <=> IsSet(c.r.P, FlagV)
              /\ cpu.r.A = c.r.A /\ cpu.r.X = c.r.X /\ cpu.r.Y = c.r.Y
              /\ cpu.r.SP = c.r.SP /\ cpu.r.PC = c.r.PC

\* Adc of the byte at an address and then Sbc of the same byte, in binary
\* mode.
AdcThenSbc ==
    /\ Len(calls) = 2
    /\ calls[1].op = "Adc" /\ calls[2].op = "Sbc"
    /\ calls[1].address = calls[2].address
    /\ ~IsSet(calls[1].r.P, FlagD)

\* 1 if flag is set in the status P, else 0.
FlagBit(P, flag) == IF IsSet(P, flag) THEN 1 ELSE 0

\* C19 as stated: in binary mode Adc of M followed by Sbc of M, with the
\* carry the Adc left, restores the accumulator.
C19_AdcSbcRestoresA ==
    AdcThenSbc => cpu.r.A = calls[1].r.A

\* C19: in binary mode Adc of M followed by Sbc of M, with the carry C_out the
\* Adc left, leaves (A + M + C) - M - (1 - C_out), that is A + C + C_out - 1
\* (mod 256), in the accumulator: A itself exactly when one of C and C_out
\* is set and the other clear.
C19_AdcSbcRoundTrip ==
    AdcThenSbc =>
        LET A == calls[1].r.A
            M == Fetch(calls[1].m, calls[1].address)
            C == FlagBit(calls[1].r.P, FlagC)
            Cout == FlagBit(calls[2].r.P, FlagC)
        IN  /\ calls[2].r.A = (A + M + C) % 256
            /\ Cout = (A + M + C) \div 256
            /\ cpu.r.A = (calls[2].r.A + 256 - M - (1 - Cout)) % 256
            /\ cpu.r.A = (A + C + Cout + 255) % 256
            /\ cpu.r.A = A <=> C + Cout = 1

\* 200 + 100 with carry clear leaves 44 and the carry; 44 - 100 with that
\* carry leaves 200 again.
C19_Witness ==
    /\ AdcThenSbc
    /\ calls[1].r.A = 200
    /\ Fetch(mem, calls[1].address) = 100
    /\ ~IsSet(calls[1].r.P, FlagC)
    /\ calls[2].r.A = 44 /\ IsSet(calls[2].r.P, FlagC)
    /\ cpu.r.A = 200

\* C20: Bit on a byte M of memory leaves Z set exactly when A & M = 0, N equal
\* to bit 7 of M and V equal to bit 6 of M, whatever P was before, and changes
\* neither A, nor another register, nor another flag, nor memory.
C20_BitSetsZNV ==
    Called("Bit") =>
        LET c == LastCall
            M == Fetch(c.m, c.address)
            others == 255 - (FlagZ + FlagN + FlagV)
        IN  /\ IsSet(cpu.r.P, FlagZ) <=> BitAnd(c.r.A, M) = 0
            /\ IsSet(cpu.r.P, FlagN) <=> IsSet(M, 128)
            /\ IsSet(cpu.r.P, FlagV) <=> IsSet(M, 64)
            /\ BitAnd(cpu.r.P, others) = BitAnd(c.r.P, others)
            /\ cpu.r = [c.r EXCEPT !.P = cpu.r.P]
            /\ mem = c.m

\* The register a transfer copies from, and the one it copies to.
TransferFrom(which) ==
    CASE which \in {"Tax", "Tay"} -> "A"
      [] which \in {"Txa", "Txs"} -> "X"
      [] which = "Tya" -> "Y"
      [] which = "Tsx" -> "SP"

TransferTo(which) ==
    CASE which \in {"Txa", "Tya"} -> "A"
      [] which \in {"Tax", "Tsx"} -> "X"
      [] which = "Tay" -> "Y"
      [] which = "Txs" -> "SP"

\* C21: Txs copies X into SP and leaves every bit of P as it was, whatever X
\* holds; Tax, Tay, Txa, Tya and Tsx copy their register, leave Z set exactly
\* when the byte copied is 0 and N equal to its bit 7, and leave the other
\* flags as they were. No transfer changes another register or memory.
C21_TxsLeavesFlags ==
    (calls # <<>> /\ LastCall.op \in Transfers) =>
        LET c == LastCall
            value == c.r[TransferFrom(c.op)]
            others == 255 - (FlagZ + FlagN)
            copied == [c.r EXCEPT ![TransferTo(c.op)] = value]
        IN  /\ mem = c.m
            /\ [cpu.r EXCEPT !.P = c.r.P] = copied
            /\ IF c.op = "Txs"
                 THEN cpu.r.P = c.r.P
                 ELSE /\ IsSet(cpu.r.P, FlagZ) <=> value = 0
                      /\ IsSet(cpu.r.P, FlagN) <=> value >= 128
                      /\ BitAnd(cpu.r.P, others) = BitAnd(c.r.P, others)

\* The first call was op1 and the second, made on what the first left, op2.
CalledThen(op1, op2) ==
    Len(calls) = 2 /\ calls[1].op = op1 /\ calls[2].op = op2

\* The registers and the memory the first call left.
AfterFirst ==
    IF Len(calls) = 1 THEN [r |-> cpu.r, m |-> mem]
                      ELSE [r |-> calls[2].r, m |-> calls[2].m]

\* C22: Jsr, called for the instruction at address a with the stack pointer
\* at sp, pushes a + 2 (the return point minus one), high byte first, and
\* jumps to the target; an Rts right after it leaves PC at a + 3 and SP at sp
\* again. This holds for every sp, also where the pushes wrap through 0x00,
\* and nothing but PC, SP and the two stack bytes changes.
C22_JsrThenRts ==
    (calls # <<>> /\ calls[1].op = "Jsr") =>
        LET c == calls[1]
            a == (c.r.PC + 65535) % 65536
            target == WordAt(c.m, c.r.PC)
            sp == c.r.SP
            below == (sp + 255) % 256
            jumped == AfterFirst
        IN  /\ jumped.r = [c.r EXCEPT !.PC = target, !.SP = (sp + 254) % 256]
            /\ Fetch(jumped.m, 256 + sp) = ((a + 2) % 65536) \div 256
            /\ Fetch(jumped.m, 256 + below) = (a + 2) % 256
            /\ \A x \in DOMAIN c.m \ {256 + sp, 256 + below} :
                    Fetch(jumped.m, x) = c.m[x]
            /\ CalledThen("Jsr", "Rts") =>
                    /\ cpu.r = [c.r EXCEPT !.PC = (a + 3) % 65536]
                    /\ mem = jumped.m

\* Jsr at 0x1000 to 0x5000 with SP = 0x00 pushes 0x10 at 0x0100 and 0x02 at
\* 0x01FF; Rts returns to 0x1003 with SP = 0x00.
C22_Witness ==
    /\ CalledThen("Jsr", "Rts")
    /\ calls[1].r.PC = 4097 /\ calls[1].r.SP = 0
    /\ calls[2].r.PC = 20480 /\ calls[2].r.SP = 254
    /\ Fetch(mem, 256) = 16 /\ Fetch(mem, 511) = 2
    /\ cpu.r.PC = 4099 /\ cpu.r.SP = 0

\* C23: Brk, called for the opcode at address a with the stack pointer at sp,
\* pushes a + 2 (high byte, then low byte) and then P with B set, sets I in
\* P, and takes PC from the word at 0xFFFE; it returns as any instruction
\* does. An Rti right after it leaves SP at sp, PC at exactly a + 2 and P
\* equal to the byte pushed. Nothing else changes.
C23_BrkThenRti ==
    (calls # <<>> /\ calls[1].op = "Brk") =>
        LET c == calls[1]
            a == (c.r.PC + 65535) % 65536
            sp == c.r.SP
            second == (sp + 255) % 256
            third == (sp + 254) % 256
            broke == AfterFirst
        IN  /\ broke.r = [c.r EXCEPT !.PC = WordAt(c.m, 65534),
                                     !.SP = (sp + 253) % 256,
                                     !.P = BitOr(c.r.P, 4)]
            /\ Fetch(broke.m, 256 + sp) = ((a + 2) % 65536) \div 256
            /\ Fetch(broke.m, 256 + second) = (a + 2) % 256
            /\ Fetch(broke.m, 256 + third) = BitOr(c.r.P, 16)
            /\ \A x \in DOMAIN c.m \ {256 + sp, 256 + second, 256 + third} :
                    Fetch(broke.m, x) = c.m[x]
            /\ CalledThen("Brk", "Rti") =>
                    /\ cpu.r = [c.r EXCEPT !.PC = (a + 2) % 65536,
                                           !.P = BitOr(c.r.P, 16)]
                    /\ mem = broke.m

\* Brk at 0x1000 with SP = 0x01 and P = 0xC3 pushes 0x10, 0x02 and 0xD3 (the
\* last at 0x01FF), sets I and jumps to 0x1234; Rti returns to 0x1002 with
\* P = 0xD3 and SP = 0x01.
C23_Witness ==
    /\ CalledThen("Brk", "Rti")
    /\ calls[1].r.PC = 4097 /\ calls[1].r.SP = 1 /\ calls[1].r.P = 195
    /\ calls[2].r.PC = 4660 /\ calls[2].r.SP = 254 /\ calls[2].r.P = 199
    /\ Fetch(mem, 257) = 16 /\ Fetch(mem, 256) = 2 /\ Fetch(mem, 511) = 211
    /\ cpu.r.PC = 4098 /\ cpu.r.SP = 1 /\ cpu.r.P = 211

\* C24: Php stores P with B set at the top of the stack and leaves the
\* register P as it was; Plp sets P to the byte it pulls, all eight bits of
\* it. So Php and then Plp leave P with B set and SP where it was, and
\* nothing else changed but the byte stored.
C24_PhpThenPlp ==
    /\ (calls # <<>> /\ calls[1].op = "Php") =>
          LET c == calls[1]
              pushed == AfterFirst
          IN  /\ pushed.r = [c.r EXCEPT !.SP = (c.r.SP + 255) % 256]
              /\ Fetch(pushed.m, 256 + c.r.SP) = BitOr(c.r.P, 16)
              /\ \A x \in DOMAIN c.m \ {256 + c.r.SP} :
                      Fetch(pushed.m, x) = c.m[x]
              /\ CalledThen("Php", "Plp") =>
                      cpu.r = [c.r EXCEPT !.P = BitOr(c.r.P, 16)]
    /\ Called("Plp") =>
          LET c == LastCall
              sp == (c.r.SP + 1) % 256
          IN  /\ cpu.r = [c.r EXCEPT !.SP = sp, !.P = Fetch(c.m, 256 + sp)]
              /\ mem = c.m

\* Php with P = 0x4F and SP = 0x00 stores 0x5F at 0x0100 and leaves P; Plp
\* then sets P = 0x5F, with SP = 0x00 again.
C24_Witness ==
    /\ CalledThen("Php", "Plp")
    /\ calls[1].r.P = 79 /\ calls[1].r.SP = 0
    /\ calls[2].r.P = 79 /\ calls[2].r.SP = 255
    /\ Fetch(mem, 256) = 95
    /\ cpu.r.P = 95 /\ cpu.r.SP = 0

\* The opcodes with an (indirect,X) operand and with an (indirect),Y operand:
\* LDA, AND, EOR and STA.
OpcodesIndirectX == {161, 33, 65, 129}
OpcodesIndirectY == {177, 49, 81, 145}

\* C25: for an (indirect,X) or (indirect),Y operand the pointer is in page
\* zero as a whole: its low byte is read at ptr and its high byte at
\* (ptr + 1) mod 256, so for ptr = 0xFF the high byte comes from address
\* 0x0000. ptr is the operand byte plus X (mod 256) for (indirect,X), the
\* operand byte for (indirect),Y, where Y is added to the pointer.
C25_PointerInZeroPage ==
    (Called("Exec") /\ LastCall.opcode \in OpcodesIndirectX \cup OpcodesIndirectY) =>
        LET c == LastCall
            b == Fetch(c.m, c.r.PC)
            ptr == IF c.opcode \in OpcodesIndirectX THEN (b + c.r.X) % 256 ELSE b
            pointer == Fetch(c.m, (ptr + 1) % 256) * 256 + Fetch(c.m, ptr)
        IN  c.address = IF c.opcode \in OpcodesIndirectX
                          THEN pointer
                          ELSE (pointer + c.r.Y) % 65536

\* C26: push of a byte v and then pull returns v and leaves SP where it was,
\* for every SP, also 0x00, from where SP wraps to 0xFF; push16 of a word w
\* and then pull16 returns w and leaves SP where it was, the high byte being
\* pushed first and the low byte pulled first. Pha and then Pla, which push
\* and pull the accumulator, restore every byte in it.
C26_PushThenPull ==
    /\ CalledThen("push", "pull") =>
          /\ calls[2].x = calls[1].address
          /\ calls[2].r.SP = (calls[1].r.SP + 255) % 256
          /\ Fetch(mem, 256 + calls[1].r.SP) = calls[1].address
          /\ cpu.r = calls[1].r
    /\ CalledThen("push16", "pull16") =>
          LET sp == calls[1].r.SP
          IN  /\ calls[2].x = calls[1].address
              /\ calls[2].r.SP = (sp + 254) % 256
              /\ Fetch(mem, 256 + sp) = calls[1].address \div 256
              /\ Fetch(mem, 256 + ((sp + 255) % 256)) = calls[1].address % 256
              /\ cpu.r = calls[1].r
    /\ CalledThen("Pha", "Pla") =>
          /\ Fetch(mem, 256 + calls[1].r.SP) = calls[1].r.A
          /\ cpu.r.A = calls[1].r.A
          /\ cpu.r.SP = calls[1].r.SP

\* push16(0x1234) with SP = 0x00 stores 0x12 at 0x0100 and 0x34 at 0x01FF and
\* leaves SP = 0xFE; pull16 returns 0x1234 with SP = 0x00.
C26_Witness ==
    /\ CalledThen("push16", "pull16")
    /\ calls[1].r.SP = 0 /\ calls[1].address = 4660
    /\ calls[2].r.SP = 254
    /\ Fetch(mem, 256) = 18 /\ Fetch(mem, 511) = 52
    /\ calls[2].x = 4660 /\ cpu.r.SP = 0

\* The bytes a stack method pushes, and the bytes it pulls.
Pushes(op) ==
    CASE op \in {"push", "Pha", "Php"} -> 1
      [] op \in {"push16", "Jsr"} -> 2
      [] op = "Brk" -> 3
      [] OTHER -> 0

Pulls(op) ==
    CASE op \in {"pull", "Pla", "Plp"} -> 1
      [] op \in {"pull16", "Rts"} -> 2
      [] op = "Rti" -> 3
      [] OTHER -> 0

\* The registers and the memory call i left.
AfterCall(i) ==
    IF i = Len(calls) THEN [r |-> cpu.r, m |-> mem]
                      ELSE [r |-> calls[i + 1].r, m |-> calls[i + 1].m]

\* C27: whatever stack methods are called one after another, each of them
\* moves SP modulo 256, writes no byte outside the page 0x0100-0x01FF (it
\* writes at 0x0100 + SP, downwards, wrapping inside the page) and takes what
\* it pulls from the bytes of that page above SP, wrapping inside the page.
C27_StackStaysInItsPage ==
    \A i \in DOMAIN calls :
        calls[i].op \in StackOps =>
            LET c == calls[i]
                after == AfterCall(i)
                sp == c.r.SP
                written == {256 + ((sp + 256 - k) % 256) :
                                k \in 0..(Pushes(c.op) - 1)}
                top(k) == Fetch(c.m, 256 + ((sp + k) % 256))
            IN  /\ after.r.SP = (sp + 256 - Pushes(c.op) + Pulls(c.op)) % 256
                /\ written \subseteq 256..511
                /\ \A x \in (DOMAIN c.m \cup DOMAIN after.m) \ written :
                        x \in DOMAIN c.m /\ Fetch(after.m, x) = c.m[x]
                /\ c.op = "pull" => c.x = top(1)
                /\ c.op = "pull16" => c.x = top(2) * 256 + top(1)
                /\ c.op = "Pla" => after.r.A = top(1)
                /\ c.op = "Plp" => after.r.P = top(1)
                /\ c.op = "Rts" =>
                        after.r.PC = (top(2) * 256 + top(1) + 1) % 65536
                /\ c.op = "Rti" =>
                        /\ after.r.P = top(1)
                        /\ after.r.PC = top(3) * 256 + top(2)

\* Brk with SP = 0x01 writes at 0x0101, 0x0100 and 0x01FF; Pha then writes
\* the accumulator at 0x01FE and leaves SP = 0xFD; the bytes next to the
\* stack page are still unwritten.
C27_Witness ==
    /\ CalledThen("Brk", "Pha")
    /\ calls[1].r.SP = 1
    /\ calls[2].r.SP = 254
    /\ cpu.r.SP = 253
    /\ Fetch(mem, 510) = cpu.r.A
    /\ Fetch(mem, 511) # Fetch(calls[1].m, 511)
    /\ 255 \notin DOMAIN mem /\ 512 \notin DOMAIN mem

\* C28 (as claimed): once Start has returned and Stop was not called since,
\* the clock is running: the ticker exists and a maintainTime goroutine is in
\* its loop to take the ticks (without one the counter never advances again).
\* This is claimed also of a Start called right after Stop returned.
C28_StartLeavesClockRunning ==
    (~fatal /\ host.pc = "idle" /\ ~halted) => (ticker /\ Running)

\* The goroutine is in <-C of an Await for a tick the clock has not reached.
Blocked(w) == thr[w].pc = "recv" /\ ticks < thr[w].tick

\* The channel of the goroutine's Await is in the wait list, under its tick.
Registered(w) == thr[w].C \in Range(MapGet(waiting, thr[w].tick))

\* C29 (as claimed): Stop does not drain the wait list. On a clock that ran
\* and was stopped (Stop has returned and Start was not called since), a
\* goroutine blocked in Await for a tick above the count has nothing in its
\* channel, so it stays in <-C, and its channel is still registered under
\* its tick, for the tick to find it when the clock is started again.
C29_StoppedClockKeepsWaiters ==
    \A w \in DOMAIN thr :
        (~fatal /\ halted /\ ticks > 0 /\ Blocked(w)) =>
            (thr[w].C \notin chanBuf /\ Registered(w))

\* The goroutines whose Await made the channel c and has not returned.
Owners(c) == {w \in DOMAIN thr : thr[w].C = c}

\* C30: maintainTime never blocks while it releases waiters. The channel it
\* is about to send to is empty, so the send completes at once; every Await
\* that waits has a channel of its own; a channel is sent to only while its
\* one owner is in <-C with nothing received yet, so it gets at most one
\* wake-up; the counter moves on whether or not the waiter takes it.
C30_SendNeverBlocks ==
    /\ [](\A p \in Producers :
            (~fatal /\ prod[p].pc = "send" /\ prod[p].Ca # <<>>) =>
                /\ Head(prod[p].Ca) \notin chanBuf
                /\ ENABLED ProdSend(p))
    /\ [](\A c \in Chans : Cardinality(Owners(c)) <= 1)
    /\ [][\A c \in Chans :
            (c \notin chanBuf /\ c \in chanBuf') =>
                \E w \in Owners(c) : thr[w].pc = "recv" /\ thr'[w].pc = "recv"]_vars
    /\ [](\A p \in Producers :
            (~fatal /\ prod[p].pc \in {"send", "delete"}) =>
                \A c \in chanBuf \cup Range(prod[p].Ca) :
                    \E w \in Owners(c) : thr[w].pc = "recv")

\* C30 witness: two goroutines wait for the same tick, maintainTime has sent
\* a wake-up into the channel of each, neither has taken it, and maintainTime
\* has counted a later tick since.
C30_Witness ==
    /\ thr[1].pc = "recv" /\ thr[2].pc = "recv"
    /\ thr[1].tick = thr[2].tick
    /\ thr[1].C # thr[2].C
    /\ {thr[1].C, thr[2].C} \subseteq chanBuf
    /\ ticks > thr[1].tick
    /\ \E p \in Producers : prod[p].pc = "select"
==============================================================================
